---------------------------- MODULE Spec2Model ----------------------------
(***************************************************************************)
(* State-machine model of simple_am_receiver.c, the network I/Q client of  *)
(* phoenix-sdr-utils: discovery wait, connect, stream header, the framed   *)
(* streaming loop, the per-frame DSP bookkeeping, the accumulation buffer  *)
(* and the waveOut device buffers.                                         *)
(*                                                                         *)
(* Conventions.                                                            *)
(*  - A 32-bit unsigned value is a record [hi, lo] of two 16-bit limbs, so *)
(*    that wrap-around at 2^32 is computed exactly.                        *)
(*  - A packed struct in memory is the sequence of its bytes; fields are   *)
(*    decoded little-endian, as the x86/x64 build reads them.              *)
(*  - pc is the position of the main thread; the signal handler, the       *)
(*    discovery callback and the audio device are separate actions.        *)
(***************************************************************************)
EXTENDS Integers, Sequences, FiniteSets, TLC

VARIABLES
    pc,               \* position of the main thread in main()
    retval,           \* value returned by main(): "none" while running
    g_running,        \* static volatile bool g_running
    use_discovery,    \* main(): bool use_discovery (false after -s HOST)
    g_server_host,    \* static char g_server_host[256]
    g_server_port,    \* static int g_server_port
    timeout,          \* main(): int timeout of the discovery wait
    disc_open,        \* discovery initialised and listener registered
    wsa_open,         \* socket_init() done, socket_cleanup() not yet
    cb_pending,       \* on_service_found in progress: << its notification >>
    announced,        \* number of discovery notifications delivered
    trying_localhost, \* the "No sdr_server found" line was logged
    conn_args,        \* arguments of the connect_to_server call in flight
    conn_log,         \* every connect() issued: sequence of <<host, port>>
    sock_open,        \* g_iq_socket holds an open socket
    rx_len,           \* recv_full: len
    rx_total,         \* recv_full: total
    rx_ret,           \* recv_full: value returned to the caller
    rx_calls,         \* recv() calls issued by the recv_full in progress
    rx_req,           \* length asked of the last recv() call
    hdr_reads,        \* number of common frame headers asked of the socket
    header,           \* read_stream_header: iq_stream_header_t (bytes)
    frame_hdr,        \* main(): iq_data_frame_t frame_hdr (bytes)
    meta,             \* main(): iq_metadata_update_t meta (bytes)
    wire,             \* bytes the server sent for the unit just received
    wire_pairs,       \* sample pairs the server sends after a data header
    frame_buffer,     \* main(): frame_buffer
    stream_kind,      \* shape of the server's stream (input partition)
    nframes,          \* frames delivered so far
    meta_log,         \* last [META] line logged: <<freq_hi, freq_lo, rate, gain>>
    dsp_n,            \* process_iq_samples: num_samples
    dsp_i,            \* process_iq_samples: loop index i
    cause,            \* why the streaming loop was left: "none" inside it
    g_lowpass_i,      \* static lowpass_t g_lowpass_i (Spec: coefficients and x1, x2)
    g_lowpass_q,      \* static lowpass_t g_lowpass_q (Spec: coefficients and x1, x2)
    chain_runs,       \* passes of the per-sample chain (stands for the
                      \* float histories y1, y2, dc, agc.level, which are
                      \* functions of the samples fed so far)
    g_decim_counter,  \* static int g_decim_counter
    g_audio_out_count,\* static int g_audio_out_count
    g_stdout_mode,    \* static bool g_stdout_mode
    g_audio_enabled,  \* static bool g_audio_enabled
    g_audio_running,  \* static bool g_audio_running
    g_current_buffer, \* static int g_current_buffer
    inqueue,          \* g_headers[i].dwFlags & WHDR_INQUEUE
    dev_queue,        \* buffers queued in the device, oldest first
    raw_blocks,       \* blocks written to stdout
    audio_blocks,     \* blocks submitted to the device
    res,              \* calls that acquired or released a resource, counted
    g_dc_block,       \* static dc_block_t g_dc_block
    g_audio_agc,      \* static audio_agc_t g_audio_agc
    g_volume,         \* static float g_volume
    g_audio_out,      \* the filled part of g_audio_out
    stage,            \* position inside the body of the per-sample loop
    loc,              \* locals of the DSP function in progress or last returned
    upd,              \* assignments made to each DSP state object, counted
    signal            \* the input the DSP functions are driven with

vars == << pc, retval, g_running, use_discovery, g_server_host, g_server_port,
           timeout, disc_open, wsa_open, cb_pending, announced,
           trying_localhost, conn_args, conn_log, sock_open,
           rx_len, rx_total, rx_ret, rx_calls, rx_req, hdr_reads,
           header, frame_hdr, meta, wire, wire_pairs, frame_buffer,
           stream_kind, nframes, meta_log, dsp_n, dsp_i, cause,
           g_lowpass_i, g_lowpass_q, chain_runs,
           g_decim_counter, g_audio_out_count, g_stdout_mode, g_audio_enabled,
           g_audio_running, g_current_buffer, inqueue, dev_queue,
           raw_blocks, audio_blocks, res, g_dc_block, g_audio_agc, g_volume,
           g_audio_out, stage, loc, upd, signal >>

netVars   == << conn_args, conn_log, sock_open >>
rxVars    == << rx_len, rx_total, rx_ret, rx_calls, rx_req >>
bufVars   == << header, frame_hdr, meta, wire, wire_pairs, frame_buffer,
                meta_log >>
dspVars   == << g_lowpass_i, g_lowpass_q, chain_runs, g_decim_counter,
                g_audio_out_count >>
loopVars  == << dsp_n, dsp_i, cause >>
audioVars == << g_audio_running, g_current_buffer, inqueue, dev_queue,
                raw_blocks, audio_blocks >>
discVars  == << g_server_host, g_server_port, cb_pending, announced >>
cfgVars   == << use_discovery, g_stdout_mode, g_audio_enabled, stream_kind >>
\* the numeric state of the chain: Spec keeps chain_runs in its place and
\* leaves these at rest; the specifications of the DSP functions carry them
numVars   == << g_dc_block, g_audio_agc, g_volume, g_audio_out, stage, loc,
                upd, signal >>

-----------------------------------------------------------------------------
(* Bounds of the model                                                     *)

\* frames a "brief" stream delivers before the server goes quiet
MaxBriefFrames == 1
\* frames a "mixed" stream delivers
MaxMixedFrames == 2
\* full-size data frames a "bulk" stream delivers
MaxBulkFrames == 53
\* recv() calls one recv_full may need: the last one allowed completes the span
MaxRecvCalls == 3
\* discovery notifications delivered in one run
MaxAnnounce == 2

-----------------------------------------------------------------------------
(* Program constants                                                       *)

DECIMATION_FACTOR == 42
AUDIO_BUFFERS == 4
AUDIO_BUFFER_SIZE == 4096
IQ_DEFAULT_PORT == 4536
IQ_FORMAT_S16 == 1
\* int timeout = 50 in main()
DISCOVERY_POLLS == 50
\* malloc(16384 * 2 * sizeof(int16_t)): capacity of frame_buffer in pairs
FRAME_BUFFER_PAIRS == 16384
\* sizeof(iq_stream_header_t), sizeof(iq_data_frame_t), sizeof(iq_metadata_update_t)
SIZEOF_STREAM_HEADER == 32
SIZEOF_DATA_FRAME == 16
SIZEOF_METADATA == 32
\* elements of g_audio_out
AUDIO_OUT_CAPACITY == 8192

-----------------------------------------------------------------------------
(* 32-bit values and packed structs                                        *)

Limb == 65536

U32(h, l) == [hi |-> h, lo |-> l]

\* the uint32_t holding n, for 0 <= n < 2^31
N32(n) == U32(n \div Limb, n % Limb)

IQ_MAGIC_HEADER == U32(20552, 22601)
IQ_MAGIC_DATA == U32(18769, 17489)
IQ_MAGIC_META == U32(19781, 21569)

\* the four bytes of a uint32_t in memory and on the wire (little-endian)
Bytes32(w) == << w.lo % 256, w.lo \div 256, w.hi % 256, w.hi \div 256 >>

\* a uint32_t field read from a packed struct: field k (0-based) of buf
Field32(buf, k) ==
    U32(buf[4 * k + 4] * 256 + buf[4 * k + 3], buf[4 * k + 2] * 256 + buf[4 * k + 1])

RECURSIVE Pack(_)
\* the bytes of a packed struct whose fields are the uint32_t values ws
Pack(ws) == IF ws = << >> THEN << >> ELSE Bytes32(Head(ws)) \o Pack(Tail(ws))

\* x * 2 in 32-bit unsigned arithmetic
Mul2U32(w) ==
    LET l == w.lo * 2
    IN  U32((w.hi * 2 + l \div Limb) % Limb, l % Limb)

\* conversion of the low 32 bits to int (two's complement)
ToInt(w) ==
    IF w.hi >= 32768 THEN (w.hi - Limb) * Limb + w.lo ELSE w.hi * Limb + w.lo

\* (int16_t) read from two bytes of frame_buffer
S16(b0, b1) ==
    LET u == b1 * 256 + b0 IN IF u >= 32768 THEN u - Limb ELSE u


-----------------------------------------------------------------------------
(* Single-precision arithmetic                                             *)
(*                                                                         *)
(* A float is a record [s, m, e] worth (-1)^s * m * 2^e, with a 24-bit     *)
(* significand m in 2^23 .. 2^24 - 1, or m = 0 for zero.  Every operation  *)
(* rounds its exact result to the nearest such value, ties to even, as the *)
(* float operators of the C source do.  The exponent is not bounded: the   *)
(* values of the chain stay far inside the range of float.                 *)

RECURSIVE Pow2(_)
Pow2(n) == IF n = 0 THEN 1 ELSE 2 * Pow2(n - 1)

RECURSIVE BitLen(_)
\* number of significant bits of n >= 0
BitLen(n) == IF n = 0 THEN 0 ELSE 1 + BitLen(n \div 2)

FZero == [s |-> 0, m |-> 0, e |-> 0]

\* the float nearest to (-1)^s * (M + f) * 2^e, where 0 <= f < 1 and
\* sticky tells whether f > 0; M < 2^30, and M >= 2^24 when sticky
FRound(s, M, e, sticky) ==
    IF M = 0 THEN FZero
    ELSE LET L == BitLen(M) IN
         IF L <= 24 THEN [s |-> s, m |-> M * Pow2(24 - L), e |-> e - (24 - L)]
         ELSE LET k    == L - 24
                  q    == M \div Pow2(k)
                  r    == M % Pow2(k)
                  half == Pow2(k - 1)
                  up   == r > half \/ (r = half /\ (sticky \/ q % 2 = 1))
                  q1   == IF up THEN q + 1 ELSE q
              IN  IF q1 = 16777216 THEN [s |-> s, m |-> 8388608, e |-> e + k + 1]
                  ELSE [s |-> s, m |-> q1, e |-> e + k]

\* (float) of an int of magnitude below 2^30
FromInt(n) == IF n < 0 THEN FRound(1, 0 - n, 0, FALSE) ELSE FRound(0, n, 0, FALSE)

FNeg(a) == IF a.m = 0 THEN a ELSE [a EXCEPT !.s = 1 - a.s]

\* fabsf
FAbs(a) == [a EXCEPT !.s = 0]

\* |a| < |b|
MagLess(a, b) ==
    IF b.m = 0 THEN FALSE
    ELSE IF a.m = 0 THEN TRUE
    ELSE a.e < b.e \/ (a.e = b.e /\ a.m < b.m)

\* a < b
FLess(a, b) ==
    IF a.s = 1 /\ a.m # 0
    THEN IF b.s = 1 /\ b.m # 0 THEN MagLess(b, a) ELSE TRUE
    ELSE IF b.s = 1 /\ b.m # 0 THEN FALSE ELSE MagLess(a, b)

\* a <= b
FLeq(a, b) == ~FLess(b, a)

\* a + b: the smaller operand is aligned to the larger one with three extra
\* bits, the last of which collects every bit shifted out
FAdd(a, b) ==
    IF a.m = 0 THEN b
    ELSE IF b.m = 0 THEN a
    ELSE LET big   == IF MagLess(a, b) THEN b ELSE a
             small == IF MagLess(a, b) THEN a ELSE b
             d     == big.e - small.e
             H     == big.m * 8
             S     == small.m * 8
             Lo    == IF d > 27 THEN 1
                      ELSE LET t == S \div Pow2(d)
                           IN  IF S % Pow2(d) # 0 /\ t % 2 = 0 THEN t + 1 ELSE t
         IN  IF big.s = small.s
             THEN FRound(big.s, H + Lo, big.e - 3, FALSE)
             ELSE FRound(big.s, H - Lo, big.e - 3, FALSE)

\* a - b
FSub(a, b) == FAdd(a, FNeg(b))

\* a * b: the 48-bit product of the significands from 12-bit halves
FMul(a, b) ==
    IF a.m = 0 \/ b.m = 0 THEN FZero
    ELSE LET a1  == a.m \div 4096
             a0  == a.m % 4096
             b1  == b.m \div 4096
             b0  == b.m % 4096
             mid == a1 * b0 + a0 * b1
             low == a0 * b0 + (mid % 4096) * 4096
             L   == low % 16777216
             H   == a1 * b1 + mid \div 4096 + low \div 16777216
             sg  == IF a.s = b.s THEN 0 ELSE 1
             wide == H >= 8388608
             q   == IF wide THEN H ELSE 2 * H + L \div 8388608
             r   == IF wide THEN L ELSE L % 8388608
             half == IF wide THEN 8388608 ELSE 4194304
             ex  == IF wide THEN a.e + b.e + 24 ELSE a.e + b.e + 23
             up  == r > half \/ (r = half /\ q % 2 = 1)
             q1  == IF up THEN q + 1 ELSE q
         IN  IF q1 = 16777216 THEN [s |-> sg, m |-> 8388608, e |-> ex + 1]
             ELSE [s |-> sg, m |-> q1, e |-> ex]

RECURSIVE LongDiv(_, _, _, _)
\* n more quotient bits of rem / den: << quotient, remainder >>
LongDiv(rem, den, q, n) ==
    IF n = 0 THEN << q, rem >>
    ELSE IF 2 * rem >= den THEN LongDiv(2 * rem - den, den, 2 * q + 1, n - 1)
         ELSE LongDiv(2 * rem, den, 2 * q, n - 1)

\* a / b for b # 0: 25 fraction bits of the quotient of the significands
FDiv(a, b) ==
    IF a.m = 0 THEN FZero
    ELSE LET qr == LongDiv(a.m % b.m, b.m, a.m \div b.m, 25)
             sg == IF a.s = b.s THEN 0 ELSE 1
         IN  FRound(sg, qr[1], a.e - b.e - 25, qr[2] # 0)

RECURSIVE SqrtBits(_, _, _, _)
\* the digit-by-digit square root of M * 2^26, M < 2^26, n bit pairs to go:
\* the first 13 pairs come from M, the last 13 are zero; << root, remainder >>
SqrtBits(M, root, rem, n) ==
    IF n = 0 THEN << root, rem >>
    ELSE LET pair == IF n > 13 THEN (M \div Pow2(2 * (n - 14))) % 4 ELSE 0
             r4   == 4 * rem + pair
             t    == 4 * root + 1
         IN  IF r4 >= t THEN SqrtBits(M, 2 * root + 1, r4 - t, n - 1)
             ELSE SqrtBits(M, 2 * root, r4, n - 1)

\* sqrtf(a) for a >= 0
FSqrt(a) ==
    IF a.m = 0 THEN FZero
    ELSE LET odd == a.e % 2 # 0
             M   == IF odd THEN 2 * a.m ELSE a.m
             ex  == IF odd THEN a.e - 1 ELSE a.e
             rr  == SqrtBits(M, 0, 0, 26)
         IN  FRound(0, rr[1], (ex - 26) \div 2, rr[2] # 0)

\* (int16_t) of a float of magnitude below 2^24: the fraction is dropped
ToInt16(a) ==
    LET mag == IF a.e >= 0 THEN a.m * Pow2(a.e)
               ELSE IF 0 - a.e > 24 THEN 0 ELSE a.m \div Pow2(0 - a.e)
    IN  IF a.s = 1 THEN 0 - mag ELSE mag

-----------------------------------------------------------------------------
(* The DSP functions                                                       *)

\* float literals of the source
F_0_0001 == [s |-> 0, m |-> 13743895, e |-> -37]
F_0_01 == [s |-> 0, m |-> 10737418, e |-> -30]
F_0_1 == [s |-> 0, m |-> 13421773, e |-> -27]
F_0_7071 == [s |-> 0, m |-> 11863169, e |-> -24]
F_0_99 == [s |-> 0, m |-> 16609444, e |-> -24]
F_PI == [s |-> 0, m |-> 13176795, e |-> -22]
F_1 == FromInt(1)
F_2 == FromInt(2)
F_100 == FromInt(100)
IQ_FILTER_CUTOFF == FromInt(3000)
SDR_SAMPLE_RATE == FromInt(2000000)
\* audio_agc_init(&g_audio_agc, 5000.0f)
AGC_TARGET == FromInt(5000)

\* lowpass_init calls the model drives: the one main() makes, cutoffs across
\* the band, and cutoffs next to 0 and next to half the sample rate
LowpassDesigns ==
    { [cutoff_hz |-> IQ_FILTER_CUTOFF, sample_rate |-> SDR_SAMPLE_RATE],
      [cutoff_hz |-> [s |-> 0, m |-> 16384000, e |-> -14],
       sample_rate |-> [s |-> 0, m |-> 16000000, e |-> -3]],
      [cutoff_hz |-> [s |-> 0, m |-> 12800000, e |-> -7],
       sample_rate |-> [s |-> 0, m |-> 16000000, e |-> -3]],
      [cutoff_hz |-> [s |-> 0, m |-> 16000000, e |-> -5],
       sample_rate |-> [s |-> 0, m |-> 16000000, e |-> -3]],
      [cutoff_hz |-> [s |-> 0, m |-> 14400000, e |-> -4],
       sample_rate |-> [s |-> 0, m |-> 16000000, e |-> -3]],
      [cutoff_hz |-> [s |-> 0, m |-> 15999998, e |-> -4],
       sample_rate |-> [s |-> 0, m |-> 16000000, e |-> -3]],
      [cutoff_hz |-> [s |-> 0, m |-> 10485760, e |-> -20],
       sample_rate |-> [s |-> 0, m |-> 16000000, e |-> -3]],
      [cutoff_hz |-> [s |-> 0, m |-> 10737418, e |-> -30],
       sample_rate |-> [s |-> 0, m |-> 16000000, e |-> -3]] }

\* w0 = 2.0f * 3.14159265f * cutoff_hz / sample_rate
W0(cutoff_hz, sample_rate) == FDiv(FMul(FMul(F_2, F_PI), cutoff_hz), sample_rate)

\* sinf and cosf at the angles of LowpassDesigns
TrigTable ==
    {
      [w |-> [s |-> 0, m |-> 10119779, e |-> -30],
       sin |-> [s |-> 0, m |-> 10119629, e |-> -30],
       cos |-> [s |-> 0, m |-> 16776471, e |-> -24]],
      [w |-> [s |-> 0, m |-> 13493038, e |-> -32],
       sin |-> [s |-> 0, m |-> 13493016, e |-> -32],
       cos |-> [s |-> 0, m |-> 16777133, e |-> -24]],
      [w |-> [s |-> 0, m |-> 10541436, e |-> -25],
       sin |-> [s |-> 0, m |-> 10368890, e |-> -25],
       cos |-> [s |-> 0, m |-> 15956081, e |-> -24]],
      [w |-> [s |-> 0, m |-> 13176795, e |-> -23],
       sin |-> [s |-> 0, m |-> 8388608, e |-> -23],
       cos |-> [s |-> 1, m |-> 12303662, e |-> -48]],
      [w |-> [s |-> 0, m |-> 11859116, e |-> -22],
       sin |-> [s |-> 0, m |-> 10368883, e |-> -25],
       cos |-> [s |-> 1, m |-> 15956082, e |-> -24]],
      [w |-> [s |-> 0, m |-> 13176793, e |-> -22],
       sin |-> [s |-> 0, m |-> 13701300, e |-> -45],
       cos |-> [s |-> 1, m |-> 8388608, e |-> -23]],
      [w |-> [s |-> 0, m |-> 8635545, e |-> -38],
       sin |-> [s |-> 0, m |-> 8635545, e |-> -38],
       cos |-> [s |-> 0, m |-> 8388608, e |-> -23]],
      [w |-> [s |-> 0, m |-> 8842798, e |-> -48],
       sin |-> [s |-> 0, m |-> 8842798, e |-> -48],
       cos |-> [s |-> 0, m |-> 8388608, e |-> -23]] }

SinF(w) == (CHOOSE t \in TrigTable : t.w = w).sin

CosF(w) == (CHOOSE t \in TrigTable : t.w = w).cos

\* the coefficient fields of a lowpass_t
Coefficients(lp) == << lp.b0, lp.b1, lp.b2, lp.a1, lp.a2 >>

\* static lowpass_t: zero-initialised storage
LowpassZero ==
    [b0 |-> FZero, b1 |-> FZero, b2 |-> FZero, a1 |-> FZero, a2 |-> FZero,
     x1 |-> FZero, x2 |-> FZero, y1 |-> FZero, y2 |-> FZero]

\* lowpass_init(lp, cutoff_hz, sample_rate): the lowpass_t it leaves
lowpass_init(cutoff_hz, sample_rate) ==
    LET w0     == W0(cutoff_hz, sample_rate)
        alpha  == FDiv(SinF(w0), FMul(F_2, F_0_7071))
        cos_w0 == CosF(w0)
        a0     == FAdd(F_1, alpha)
    IN  [b0 |-> FDiv(FDiv(FSub(F_1, cos_w0), F_2), a0),
         b1 |-> FDiv(FSub(F_1, cos_w0), a0),
         b2 |-> FDiv(FDiv(FSub(F_1, cos_w0), F_2), a0),
         a1 |-> FDiv(FMul(FNeg(F_2), cos_w0), a0),
         a2 |-> FDiv(FSub(F_1, alpha), a0),
         x1 |-> FZero, x2 |-> FZero, y1 |-> FZero, y2 |-> FZero]

\* the lowpass_t main() sets up, twice:
\* lowpass_init(&g_lowpass_i, IQ_FILTER_CUTOFF, SDR_SAMPLE_RATE)
MainDesign == lowpass_init(IQ_FILTER_CUTOFF, SDR_SAMPLE_RATE)

\* lowpass_process(lp, x): [lp |-> the lowpass_t it leaves, y |-> its result]
lowpass_process(lp, x) ==
    LET y == FSub(FSub(FAdd(FAdd(FMul(lp.b0, x), FMul(lp.b1, lp.x1)),
                            FMul(lp.b2, lp.x2)),
                       FMul(lp.a1, lp.y1)),
                  FMul(lp.a2, lp.y2))
    IN  [lp |-> [lp EXCEPT !.x2 = lp.x1, !.x1 = x, !.y2 = lp.y1, !.y1 = y],
         y  |-> y]

\* dc_block_init(dc)
dc_block_init == [x_prev |-> FZero, y_prev |-> FZero]

\* the factor of y_prev in dc_block_process, read as the float 1.0f
DC_FEEDBACK_UNITY == F_1

\* the factor of y_prev in dc_block_process
DC_FEEDBACK == F_0_99

\* dc_block_process(dc, x): [dc |-> the dc_block_t it leaves, y |-> its result]
dc_block_process(dc, x) ==
    LET y == FAdd(FSub(x, dc.x_prev), FMul(DC_FEEDBACK, dc.y_prev))
    IN  [dc |-> [x_prev |-> x, y_prev |-> y], y |-> y]

\* audio_agc_init(agc, target)
audio_agc_init(target) ==
    [level |-> F_0_0001, target |-> target, attack |-> F_0_01,
     decay |-> F_0_0001, warmup |-> 0]

\* the rates of audio_agc_process taken the other way round
AgcRateSwapped(agc, mag) == IF FLess(agc.level, mag) THEN agc.decay ELSE agc.attack

\* if (mag > agc->level) ... agc->attack ... else ... agc->decay
AgcRate(agc, mag) == IF FLess(agc.level, mag) THEN agc.attack ELSE agc.decay

\* audio_agc_process without the floor of the level
AgcFloorAbsent(level) == level

\* if (agc->level < 0.0001f) agc->level = 0.0001f
AgcFloor(level) == IF FLess(level, F_0_0001) THEN F_0_0001 ELSE level

\* the gain of audio_agc_process without its two limits
AgcGainUnlimited(target, level) == FDiv(target, level)

\* gain = agc->target / agc->level, limited to 0.1f .. 100.0f
AgcGain(target, level) ==
    LET gain == FDiv(target, level)
    IN  IF FLess(F_100, gain) THEN F_100
        ELSE IF FLess(gain, F_0_1) THEN F_0_1 ELSE gain

\* audio_agc_process(agc, x): the audio_agc_t it leaves, its locals (moved is
\* agc->level before the floor is applied) and its result
audio_agc_process(agc, x) ==
    LET mag   == FAbs(x)
        moved == FAdd(agc.level, FMul(AgcRate(agc, mag), FSub(mag, agc.level)))
        level == AgcFloor(moved)
        gain  == AgcGain(agc.target, level)
    IN  [agc |-> [agc EXCEPT !.level = level], mag |-> mag, moved |-> moved,
         gain |-> gain, ret |-> FMul(x, gain)]

-----------------------------------------------------------------------------
(* Inputs                                                                  *)

\* hosts -s HOST may name
CliHosts == {"localhost", "127.0.0.1"}

\* ports -p PORT may name
CliPorts == {IQ_DEFAULT_PORT}

\* notifications the discovery library may deliver to on_service_found
Notifications ==
    [service : {"sdr_server", "sdr_ctrl"}, ip : {"192.168.1.20"},
     data_port : {0, 4600}, is_bye : BOOLEAN]

\* inet_pton(AF_INET, host, ...) == 1: dotted-quad text only, no name resolution
InetPton(host) == host \in {"127.0.0.1", "192.168.1.20"}

\* stream headers a server may send: right or wrong magic, S16 or another format
StreamHeaders ==
    { Pack(<< m, N32(1), N32(2000000), f, N32(10000000), N32(0), N32(40), N32(1) >>) :
        m \in {IQ_MAGIC_HEADER, IQ_MAGIC_DATA}, f \in {N32(IQ_FORMAT_S16), N32(2)} }

\* sample pairs a data frame may carry; every pair of one frame is the same
SamplePairs == { << 232, 3, 0, 0 >>, << 254, 255, 3, 0 >> }

\* sample counts a data frame header may declare
SampleCounts ==
    {0, 1, 1000, FRAME_BUFFER_PAIRS, FRAME_BUFFER_PAIRS + 1, 536870912, 1073741824}

\* << sequence, flags >> a data frame header may carry: in a stream of two
\* frames these give a repeat (7, 7), a gap (3, 7) and a step back (7, 3)
FrameTags == IF stream_kind = "mixed" THEN { << 7, 0 >>, << 3, 1 >> } ELSE { << 7, 0 >> }

DataHeaders(counts) ==
    { Pack(<< IQ_MAGIC_DATA, N32(t[1]), N32(c), N32(t[2]) >>) :
        c \in counts, t \in FrameTags }

\* a metadata frame: its first 16 bytes arrive as the common frame header
\* the fields of iq_metadata_update_t, in struct order
MetaRecords ==
    { << IQ_MAGIC_META, N32(2000000), N32(IQ_FORMAT_S16), N32(5000000), N32(0),
         N32(30), N32(1), N32(0) >>,
      << IQ_MAGIC_META, N32(96000), N32(2), N32(705032704), N32(2),
         N32(59), N32(0), N32(0) >> }

MetaFrames == { Pack(t) : t \in MetaRecords }

UnknownHeaders == { Pack(<< IQ_MAGIC_HEADER, N32(0), N32(4), N32(0) >>) }

\* frames the server may send next: a data header (its payload follows), a
\* whole metadata frame, or a header with an unknown magic
Frames ==
    CASE stream_kind = "bulk"  -> DataHeaders({FRAME_BUFFER_PAIRS})
      [] stream_kind = "mixed" -> DataHeaders(SampleCounts) \cup MetaFrames
                                    \cup UnknownHeaders
      [] stream_kind = "brief" -> DataHeaders({1000}) \cup UnknownHeaders

\* sample pairs the payload delivered next may repeat
Payloads == IF stream_kind = "mixed" THEN SamplePairs ELSE {<< 232, 3, 0, 0 >>}

MaxFrames ==
    CASE stream_kind = "bulk"  -> MaxBulkFrames
      [] stream_kind = "mixed" -> MaxMixedFrames
      [] stream_kind = "brief" -> MaxBriefFrames

-----------------------------------------------------------------------------
(* Initial state: main() after argument parsing and signal()               *)

NoBuffersQueued == [i \in 0 .. AUDIO_BUFFERS - 1 |-> FALSE]

\* the fields of a lowpass_t that Spec carries: the output history y1, y2 is
\* a function of the samples fed, which chain_runs counts
InputSide(lp) == [f \in {"b0", "b1", "b2", "a1", "a2", "x1", "x2"} |-> lp[f]]

\* the process as main() is entered, but for the command line and the state
\* the DSP functions work on
Launch ==
    /\ pc = "start"
    /\ retval = "none"
    /\ g_running = TRUE
    /\ timeout = DISCOVERY_POLLS
    /\ disc_open = FALSE
    /\ wsa_open = FALSE
    /\ cb_pending = << >>
    /\ announced = 0
    /\ trying_localhost = FALSE
    /\ conn_args = << >>
    /\ conn_log = << >>
    /\ sock_open = FALSE
    /\ rx_len = 0 /\ rx_total = 0 /\ rx_ret = 0 /\ rx_calls = 0 /\ rx_req = 0
    /\ hdr_reads = 0
    /\ header = << >> /\ frame_hdr = << >> /\ meta = << >> /\ wire = << >>
    /\ wire_pairs = 0
    /\ frame_buffer = [pair |-> << >>, pairs |-> 0, overrun |-> FALSE]
    /\ nframes = 0
    /\ meta_log = << >>
    /\ cause = "none"
    /\ chain_runs = 0
    /\ g_audio_running = FALSE
    /\ g_current_buffer = 0
    /\ inqueue = NoBuffersQueued
    /\ dev_queue = << >>
    /\ raw_blocks = 0
    /\ audio_blocks = 0
    /\ res = [sock_opened |-> 0, sock_closed |-> 0, wave_opened |-> 0,
              wave_closed |-> 0, disc_inited |-> 0, disc_shut |-> 0]

\* static float g_volume = 50.0f
DefaultVolume == FromInt(50)

\* no DSP function has been called
NoCalls == [lowpass_i |-> 0, lowpass_q |-> 0, dc_block |-> 0, agc |-> 0]

Init ==
    /\ Launch
    /\ use_discovery \in BOOLEAN
    /\ g_stdout_mode \in BOOLEAN
    /\ g_audio_enabled \in BOOLEAN
    /\ stream_kind \in {"brief", "mixed", "bulk"}
    /\ use_discovery => stream_kind = "brief"
    /\ g_stdout_mode => stream_kind = "bulk"
    /\ g_server_host \in (IF use_discovery THEN {"localhost"} ELSE CliHosts)
    /\ g_server_port \in CliPorts
    /\ dsp_n = 0 /\ dsp_i = 0
    /\ g_lowpass_i = InputSide(LowpassZero)
    /\ g_lowpass_q = InputSide(LowpassZero)
    /\ g_decim_counter = 0
    /\ g_audio_out_count = 0
    /\ g_dc_block = dc_block_init
    /\ g_audio_agc = [level |-> FZero, target |-> FZero, attack |-> FZero,
                      decay |-> FZero, warmup |-> 0]
    /\ g_volume = DefaultVolume
    /\ g_audio_out = << >>
    /\ stage = "idle"
    /\ loc = << >>
    /\ upd = NoCalls
    /\ signal = "none"

-----------------------------------------------------------------------------
(* Teardown helpers                                                        *)

\* audio_close(): waveOutReset returns every queued buffer
audio_close ==
    IF g_audio_running
    THEN /\ g_audio_running' = FALSE
         /\ inqueue' = NoBuffersQueued
         /\ dev_queue' = << >>
         /\ UNCHANGED << g_current_buffer, raw_blocks, audio_blocks >>
    ELSE UNCHANGED audioVars

\* the tail shared by the return paths of main() after audio start-up:
\* if (g_audio_enabled) audio_close(); if (use_discovery) pn_discovery_shutdown();
\* socket_cleanup(); return status
\* the return paths of main() turned into another connection attempt
TeardownAndRetry(status, closesockets) ==
    /\ UNCHANGED << audioVars, disc_open, wsa_open, retval >>
    /\ res' = [res EXCEPT !.sock_closed = @ + closesockets]
    /\ pc' = "connect"

\* what every return path of main() past audio start-up does, after
\* closesockets calls of closesocket
Teardown(status, closesockets) ==
    /\ IF g_audio_enabled THEN audio_close ELSE UNCHANGED audioVars
    /\ disc_open' = IF use_discovery THEN FALSE ELSE disc_open
    /\ wsa_open' = FALSE
    /\ res' = [res EXCEPT
                 !.sock_closed = @ + closesockets,
                 !.wave_closed = @ + (IF g_audio_enabled /\ g_audio_running
                                      THEN 1 ELSE 0),
                 !.disc_shut   = @ + (IF use_discovery THEN 1 ELSE 0)]
    /\ pc' = "exited"
    /\ retval' = status

\* a return path of main() with no socket to close
Leave(status) == Teardown(status, 0)

-----------------------------------------------------------------------------
(* Signal handler and discovery callback                                   *)

\* signal_handler: SIGINT at any moment of the run
signal_handler ==
    /\ pc \notin {"exited", "crashed"}
    /\ g_running
    /\ g_running' = FALSE
    /\ UNCHANGED << pc, retval, cfgVars, res, numVars, discVars, timeout, disc_open, wsa_open,
                    trying_localhost, netVars, rxVars, hdr_reads, bufVars,
                    nframes, loopVars, dspVars, audioVars >>

\* the test of on_service_found without the comparison of the service name
ServiceAcceptedAnyService(n) == ~n.is_bye /\ n.data_port > 0

\* if (is_bye) return; if (strcmp(service, "sdr_server") == 0 && data_port > 0)
ServiceAccepted(n) == ~n.is_bye /\ n.service = "sdr_server" /\ n.data_port > 0

\* on_service_found, called with notification n, up to the store of the
\* host (strncpy)
on_service_found ==
    /\ pc \notin {"exited", "crashed"}
    /\ disc_open
    /\ cb_pending = << >>
    /\ announced < MaxAnnounce
    /\ announced' = announced + 1
    /\ \E n \in Notifications :
         /\ cb_pending' = << n >>
         /\ g_server_host' = IF ServiceAccepted(n) THEN n.ip ELSE g_server_host
    /\ UNCHANGED << pc, retval, g_running, cfgVars, res, numVars, g_server_port, timeout,
                    disc_open, wsa_open, trying_localhost, netVars, rxVars,
                    hdr_reads, bufVars, nframes, loopVars, dspVars, audioVars >>

\* on_service_found, the store of the port, and its return
on_service_found_port ==
    /\ pc \notin {"exited", "crashed"}
    /\ cb_pending # << >>
    /\ g_server_port' = IF ServiceAccepted(cb_pending[1])
                        THEN cb_pending[1].data_port ELSE g_server_port
    /\ cb_pending' = << >>
    /\ UNCHANGED << pc, retval, g_running, cfgVars, res, numVars, g_server_host, announced,
                    timeout, disc_open, wsa_open, trying_localhost, netVars,
                    rxVars, hdr_reads, bufVars, nframes, loopVars, dspVars,
                    audioVars >>

-----------------------------------------------------------------------------
(* main(): start-up                                                        *)

\* socket_init() != 0 -> return 1
SocketInit ==
    /\ pc = "start"
    /\ \E ok \in BOOLEAN :
         IF ok
         THEN /\ wsa_open' = TRUE
              /\ pc' = IF use_discovery THEN "disc_init" ELSE "dsp_init"
              /\ UNCHANGED retval
         ELSE /\ pc' = "exited"
              /\ retval' = "1"
              /\ UNCHANGED wsa_open
    /\ UNCHANGED << g_running, cfgVars, res, numVars, discVars, timeout, disc_open,
                    trying_localhost, netVars, rxVars, hdr_reads, bufVars,
                    nframes, loopVars, dspVars, audioVars >>

\* pn_discovery_init, pn_listen: either may fail, then return 1
DiscoveryInit ==
    /\ pc = "disc_init"
    /\ \E r \in {"ok", "init_failed", "listen_failed"} :
         IF r = "ok"
         THEN /\ disc_open' = TRUE
              /\ res' = [res EXCEPT !.disc_inited = @ + 1]
              /\ timeout' = DISCOVERY_POLLS
              /\ pc' = "disc_wait"
              /\ UNCHANGED << retval, wsa_open >>
         ELSE /\ wsa_open' = FALSE
              /\ res' = IF r = "listen_failed"
                        THEN [res EXCEPT !.disc_inited = @ + 1, !.disc_shut = @ + 1]
                        ELSE res
              /\ pc' = "exited"
              /\ retval' = "1"
              /\ UNCHANGED << disc_open, timeout >>
    /\ UNCHANGED << g_running, cfgVars, numVars, discVars, trying_localhost, netVars,
                    rxVars, hdr_reads, bufVars, nframes, loopVars, dspVars,
                    audioVars >>

\* while (timeout-- > 0 && strcmp(g_server_host, "localhost") == 0) sleep_ms(100)
DiscoveryWait ==
    /\ pc = "disc_wait"
    /\ timeout' = timeout - 1
    /\ pc' = IF timeout > 0 /\ g_server_host = "localhost"
             THEN "disc_wait" ELSE "disc_check"
    /\ UNCHANGED << retval, g_running, cfgVars, res, numVars, discVars, disc_open, wsa_open,
                    trying_localhost, netVars, rxVars, hdr_reads, bufVars,
                    nframes, loopVars, dspVars, audioVars >>

\* if (strcmp(g_server_host, "localhost") == 0) LOG("No sdr_server found ...");
\* the block ends and timeout goes out of scope
DiscoveryCheck ==
    /\ pc = "disc_check"
    /\ trying_localhost' = (g_server_host = "localhost")
    /\ timeout' = 0
    /\ pc' = "dsp_init"
    /\ UNCHANGED << retval, g_running, cfgVars, res, numVars, discVars, disc_open,
                    wsa_open, netVars, rxVars, hdr_reads, bufVars, nframes,
                    loopVars, dspVars, audioVars >>

\* lowpass_init x2, dc_block_init, audio_agc_init; the DC blocker and the gain
\* control are among the state Spec leaves at rest (numVars)
DspInit ==
    /\ pc = "dsp_init"
    /\ g_lowpass_i' = InputSide(MainDesign)
    /\ g_lowpass_q' = InputSide(MainDesign)
    /\ chain_runs' = 0
    /\ pc' = "audio_init"
    /\ UNCHANGED << retval, g_running, cfgVars, res, numVars, discVars, timeout, disc_open,
                    wsa_open, trying_localhost, netVars, rxVars, hdr_reads,
                    bufVars, nframes, loopVars, g_decim_counter,
                    g_audio_out_count, audioVars >>

\* if (g_audio_enabled) { if (!audio_init()) { ...; return 1; } }
AudioInit ==
    /\ pc = "audio_init"
    /\ IF g_audio_enabled
       THEN \E ok \in BOOLEAN :
              IF ok
              THEN /\ g_audio_running' = TRUE
                   /\ res' = [res EXCEPT !.wave_opened = @ + 1]
                   /\ pc' = "connect"
                   /\ UNCHANGED << retval, disc_open, wsa_open >>
              ELSE /\ disc_open' = IF use_discovery THEN FALSE ELSE disc_open
                   /\ res' = [res EXCEPT !.disc_shut =
                                @ + (IF use_discovery THEN 1 ELSE 0)]
                   /\ wsa_open' = FALSE
                   /\ pc' = "exited"
                   /\ retval' = "1"
                   /\ UNCHANGED g_audio_running
       ELSE /\ pc' = "connect"
            /\ UNCHANGED << retval, disc_open, wsa_open, g_audio_running, res >>
    /\ UNCHANGED << g_running, cfgVars, numVars, discVars, timeout, trying_localhost,
                    netVars, rxVars, hdr_reads, bufVars, nframes, loopVars,
                    dspVars, g_current_buffer, inqueue, dev_queue, raw_blocks,
                    audio_blocks >>


-----------------------------------------------------------------------------
(* connect_to_server                                                       *)

\* the return paths of main() once frame reading may have begun:
\* closesocket(g_iq_socket) first
LeaveNotClosing(status) ==
    /\ UNCHANGED sock_open
    /\ Teardown(status, 0)

LeaveClosing(status) ==
    /\ sock_open' = FALSE
    /\ Teardown(status, 1)

\* connect_to_server(g_server_host, g_server_port): the port is passed by
\* value, the host by address; socket() may fail
ConnectCall ==
    /\ pc = "connect"
    /\ \E ok \in BOOLEAN :
         IF ok
         THEN /\ conn_args' = << g_server_port >>
              /\ sock_open' = TRUE
              /\ res' = [res EXCEPT !.sock_opened = @ + 1]
              /\ pc' = "conn_pton"
              /\ UNCHANGED << retval, disc_open, wsa_open, audioVars >>
         ELSE /\ UNCHANGED << conn_args, sock_open >>
              /\ Leave("1")
    /\ UNCHANGED << g_running, cfgVars, numVars, discVars, timeout, trying_localhost,
                    conn_log, rxVars, hdr_reads, bufVars, nframes, loopVars,
                    dspVars >>

\* inet_pton(AF_INET, host, &addr.sin_addr) != 1 -> closesocket, return false
ConnectPton ==
    /\ pc = "conn_pton"
    /\ IF InetPton(g_server_host)
       THEN /\ conn_args' = conn_args \o << g_server_host >>
            /\ pc' = "conn_connect"
            /\ UNCHANGED << retval, disc_open, wsa_open, sock_open, audioVars, res >>
       ELSE /\ UNCHANGED conn_args
            /\ LeaveClosing("1")
    /\ UNCHANGED << g_running, cfgVars, numVars, discVars, timeout, trying_localhost,
                    conn_log, rxVars, hdr_reads, bufVars, nframes, loopVars,
                    dspVars >>

\* connect(): on success main() goes on to read_stream_header, which starts
\* recv_full(g_iq_socket, &header, sizeof(header))
ConnectDo ==
    /\ pc = "conn_connect"
    /\ conn_log' = Append(conn_log, << conn_args[2], conn_args[1] >>)
    /\ \E ok \in BOOLEAN :
         IF ok
         THEN /\ pc' = "rd_header"
              /\ rx_len' = SIZEOF_STREAM_HEADER
              /\ rx_total' = 0
              /\ rx_calls' = 0
              /\ UNCHANGED << retval, disc_open, wsa_open, sock_open, audioVars,
                              rx_ret, rx_req, res >>
         ELSE /\ LeaveClosing("1")
              /\ UNCHANGED rxVars
    /\ UNCHANGED << g_running, cfgVars, numVars, discVars, timeout, trying_localhost,
                    conn_args, hdr_reads, bufVars, nframes, loopVars, dspVars >>

-----------------------------------------------------------------------------
(* recv_full                                                               *)

RecvPcs == {"rd_header", "rd_frame", "rd_data", "rd_meta"}

\* where recv_full returns to
CheckOf(p) ==
    CASE p = "rd_header" -> "ck_header"
      [] p = "rd_frame"  -> "ck_frame"
      [] p = "rd_data"   -> "ck_data"
      [] p = "rd_meta"   -> "ck_meta"

\* recv() asked for len on every pass, whatever has arrived
RecvRequestWhole(len, total) == len

\* the length recv_full asks of recv(): len - total
RecvRequest(len, total) == len - total

\* the loop of recv_full as a do-while: one recv() before the first test
RecvLoopsAtLeastOnce(len, total) == (total < len \/ total = 0) /\ g_running

\* the loop of recv_full without the g_running test
RecvLoopsBlind(len, total) == total < len

\* recv_full goes round its loop: while (total < len && g_running)
RecvLoops(len, total) == total < len /\ g_running

\* what one recv() of req bytes may return: an error, EOF, or 1..req bytes
\* (a first byte alone, about half, or all of them); a stream that has
\* delivered all its frames only ends
RecvResults(req, site) ==
    {-1, 0} \cup
    IF site = "rd_frame" /\ nframes >= MaxFrames THEN {}
    ELSE IF rx_calls + 1 >= MaxRecvCalls THEN {req}
    ELSE {1, (req + 1) \div 2, req}

\* the caller has compared recv_full's result: its locals are gone
RecvDone ==
    /\ rx_len' = 0
    /\ rx_total' = 0
    /\ rx_ret' = 0
    /\ rx_calls' = 0
    /\ rx_req' = 0

\* meta as recv leaves it: the bytes land behind the common header copied in
MetaStore(m, bytes) == SubSeq(m, 1, SIZEOF_DATA_FRAME) \o bytes

\* bytes of frame_buffer's allocation
FrameBufferBytes == FRAME_BUFFER_PAIRS * 4

\* the span is complete: what the destination then holds
Deliver(site, total) ==
    CASE site = "rd_header" ->
           /\ \E h \in StreamHeaders : header' = h /\ wire' = h
           /\ UNCHANGED << frame_hdr, meta, wire_pairs, frame_buffer, meta_log,
                           nframes >>
      [] site = "rd_frame" ->
           /\ \E f \in Frames :
                /\ frame_hdr' = SubSeq(f, 1, SIZEOF_DATA_FRAME)
                /\ wire' = f
                /\ wire_pairs' = IF Field32(f, 0) = IQ_MAGIC_DATA
                                 THEN ToInt(Field32(f, 2)) ELSE 0
           /\ nframes' = nframes + 1
           /\ UNCHANGED << header, meta, frame_buffer, meta_log >>
      [] site = "rd_data" ->
           /\ \E p \in Payloads :
                frame_buffer' = [pair |-> p, pairs |-> total \div 4,
                                 overrun |-> frame_buffer.overrun
                                             \/ total > FrameBufferBytes]
           /\ UNCHANGED << header, frame_hdr, meta, wire, wire_pairs, meta_log,
                           nframes >>
      [] site = "rd_meta" ->
           /\ meta' = MetaStore(meta, SubSeq(wire, SIZEOF_DATA_FRAME + 1, SIZEOF_METADATA))
           /\ UNCHANGED << header, frame_hdr, wire, wire_pairs, frame_buffer,
                           meta_log, nframes >>

\* one recv() inside recv_full: received <= 0 returns -1, else total += received
RecvCall ==
    /\ pc \in RecvPcs
    /\ RecvLoops(rx_len, rx_total)
    /\ rx_calls' = rx_calls + 1
    /\ rx_req' = RecvRequest(rx_len, rx_total)
    /\ \E received \in RecvResults(rx_req', pc) :
         IF received <= 0
         THEN /\ rx_ret' = -1
              /\ pc' = CheckOf(pc)
              /\ UNCHANGED << rx_total, bufVars, nframes >>
         ELSE /\ rx_total' = rx_total + received
              /\ UNCHANGED rx_ret
              /\ IF rx_total' >= rx_len
                 THEN Deliver(pc, rx_total')
                 ELSE /\ frame_buffer' =
                           [frame_buffer EXCEPT !.overrun =
                              @ \/ (pc = "rd_data" /\ rx_total' > FrameBufferBytes)]
                      /\ UNCHANGED << header, frame_hdr, meta, wire, wire_pairs,
                                      meta_log, nframes >>
              \* bytes stored past the end of frame_buffer: undefined
              \* behaviour, the process may die on the spot
              /\ \/ pc' = pc
                 \/ /\ pc = "rd_data"
                    /\ rx_total' > FrameBufferBytes
                    /\ pc' = "crashed"
    /\ UNCHANGED << retval, g_running, cfgVars, res, numVars, discVars, timeout, disc_open,
                    wsa_open, trying_localhost, netVars, rx_len, hdr_reads,
                    loopVars, dspVars, audioVars >>

\* the loop of recv_full ends: return total
RecvReturn ==
    /\ pc \in RecvPcs
    /\ ~RecvLoops(rx_len, rx_total)
    /\ rx_ret' = rx_total
    /\ pc' = CheckOf(pc)
    /\ UNCHANGED << retval, g_running, cfgVars, res, numVars, discVars, timeout, disc_open,
                    wsa_open, trying_localhost, netVars, rx_len, rx_total,
                    rx_calls, rx_req, hdr_reads, bufVars, nframes, loopVars,
                    dspVars, audioVars >>


-----------------------------------------------------------------------------
(* read_stream_header and the frame buffer                                 *)

\* read_stream_header without the sample_format test
HeaderAcceptedAnyFormat(ret, hdr) ==
    /\ ret = SIZEOF_STREAM_HEADER
    /\ Field32(hdr, 0) = IQ_MAGIC_HEADER

\* read_stream_header without the magic test
HeaderAcceptedAnyMagic(ret, hdr) ==
    /\ ret = SIZEOF_STREAM_HEADER
    /\ Field32(hdr, 3) = N32(IQ_FORMAT_S16)

\* main() going on whatever read_stream_header returned
HeaderAcceptedAlways(ret, hdr) == TRUE

\* read_stream_header returns true
HeaderAccepted(ret, hdr) ==
    /\ ret = SIZEOF_STREAM_HEADER
    /\ Field32(hdr, 0) = IQ_MAGIC_HEADER
    /\ Field32(hdr, 3) = N32(IQ_FORMAT_S16)

\* if (!read_stream_header()) { closesocket; ...; return 1; }
ReadStreamHeader ==
    /\ pc = "ck_header"
    /\ IF HeaderAccepted(rx_ret, header)
       THEN /\ pc' = "alloc"
            /\ UNCHANGED << retval, disc_open, wsa_open, sock_open, audioVars, res >>
       ELSE LeaveClosing("1")
    /\ RecvDone
    /\ UNCHANGED << g_running, cfgVars, numVars, discVars, timeout, trying_localhost,
                    conn_args, conn_log, hdr_reads, bufVars, nframes,
                    loopVars, dspVars >>

\* frame_buffer = malloc(...); if (!frame_buffer) { closesocket; ...; return 1; }
AllocFrameBuffer ==
    /\ pc = "alloc"
    /\ \E ok \in BOOLEAN :
         IF ok
         THEN /\ pc' = "loop"
              /\ UNCHANGED << retval, disc_open, wsa_open, sock_open, audioVars, res >>
         ELSE LeaveClosing("1")
    /\ UNCHANGED << g_running, cfgVars, numVars, discVars, timeout, trying_localhost,
                    conn_args, conn_log, rxVars, hdr_reads, bufVars, nframes,
                    loopVars, dspVars >>

-----------------------------------------------------------------------------
(* main(): the streaming loop                                              *)

\* how a read that did not return its full length failed: recv() reported an
\* error or EOF (recv_full returned -1), or recv_full came back short
ReadFailure(ret) == IF ret = -1 THEN "recv_failed" ELSE "short_read"

\* the status main() returns after the streaming loop
LoopExitStatus(why) == "0"

\* the streaming loop as while (1): the next header is asked for in any case
LoopTestForEver ==
    /\ pc = "loop"
    /\ pc' = "rd_frame"
    /\ rx_len' = SIZEOF_DATA_FRAME
    /\ rx_total' = 0
    /\ rx_calls' = 0
    /\ hdr_reads' = hdr_reads + 1
    /\ UNCHANGED << rx_ret, rx_req, cause >>
    /\ UNCHANGED << retval, g_running, cfgVars, res, numVars, discVars, timeout, disc_open,
                    wsa_open, trying_localhost, netVars, bufVars, nframes,
                    dsp_n, dsp_i, dspVars, audioVars >>

\* while (g_running) { recv_full(g_iq_socket, &frame_hdr, sizeof(frame_hdr)) ...
LoopTest ==
    /\ pc = "loop"
    /\ IF g_running
       THEN /\ pc' = "rd_frame"
            /\ rx_len' = SIZEOF_DATA_FRAME
            /\ rx_total' = 0
            /\ rx_calls' = 0
            /\ hdr_reads' = hdr_reads + 1
            /\ UNCHANGED << rx_ret, rx_req, cause >>
       ELSE /\ pc' = "cleanup"
            /\ cause' = "shutdown"
            /\ UNCHANGED << rxVars, hdr_reads >>
    /\ UNCHANGED << retval, g_running, cfgVars, res, numVars, discVars, timeout, disc_open,
                    wsa_open, trying_localhost, netVars, bufVars, nframes,
                    dsp_n, dsp_i, dspVars, audioVars >>

\* low 32 bits of size_t data_size = num_samples * 2 * sizeof(int16_t):
\* num_samples * 2 is an unsigned int product; size_t is 32 or 64 bits wide
\* and only (int)data_size, its low 32 bits, is ever used
DataSize(num_samples) == Mul2U32(Mul2U32(num_samples))

\* unsigned int num_samples as process_iq_samples receives it (below 2^31 here)
Count(num_samples) == num_samples.hi * Limb + num_samples.lo

\* a dispatch with no final else: what is not data is taken for metadata
FrameKindLenient(magic) ==
    IF magic = IQ_MAGIC_DATA THEN "data" ELSE "meta"

\* the dispatch on frame_hdr.magic
FrameKind(magic) ==
    IF magic = IQ_MAGIC_DATA THEN "data"
    ELSE IF magic = IQ_MAGIC_META THEN "meta"
    ELSE "unknown"

\* a dispatch that also wants the sequence number it expects
DispatchInOrder(hdr) ==
    IF Field32(hdr, 1) # N32(7) THEN "unknown" ELSE FrameKind(Field32(hdr, 0))

\* the branch main() takes on a frame header: magic is the one field read
Dispatch(hdr) == FrameKind(Field32(hdr, 0))

\* the whole of sizeof(meta) asked for after a metadata header
MetaRemainingWhole == SIZEOF_METADATA

\* bytes asked for after a metadata header: sizeof(meta) - sizeof(frame_hdr)
MetaRemaining == SIZEOF_METADATA - SIZEOF_DATA_FRAME

\* the frame header came back from recv_full: break, or start on the payload
FrameHeader ==
    /\ pc = "ck_frame"
    /\ IF rx_ret # SIZEOF_DATA_FRAME
       THEN /\ pc' = "cleanup"
            /\ cause' = ReadFailure(rx_ret)
            /\ RecvDone
            /\ UNCHANGED meta
       ELSE CASE Dispatch(frame_hdr) = "data" ->
                   /\ pc' = "rd_data"
                   /\ rx_len' = ToInt(DataSize(Field32(frame_hdr, 2)))
                   /\ rx_total' = 0
                   /\ rx_calls' = 0
                   /\ rx_ret' = 0
                   /\ rx_req' = 0
                   /\ UNCHANGED << meta, cause >>
              [] Dispatch(frame_hdr) = "meta" ->
                   /\ meta' = frame_hdr
                   /\ pc' = "rd_meta"
                   /\ rx_len' = MetaRemaining
                   /\ rx_total' = 0
                   /\ rx_calls' = 0
                   /\ rx_ret' = 0
                   /\ rx_req' = 0
                   /\ UNCHANGED cause
              [] OTHER ->
                   /\ pc' = "cleanup"
                   /\ cause' = "bad_magic"
                   /\ RecvDone
                   /\ UNCHANGED meta
    /\ UNCHANGED << retval, g_running, cfgVars, res, numVars, discVars, timeout, disc_open,
                    wsa_open, trying_localhost, netVars, hdr_reads, header,
                    frame_hdr, wire, wire_pairs, frame_buffer, meta_log,
                    nframes, dsp_n, dsp_i, dspVars, audioVars >>

\* the payload came back: break, or process_iq_samples(frame_buffer, num_samples)
DataPayload ==
    /\ pc = "ck_data"
    /\ IF rx_ret # rx_len
       THEN /\ pc' = "cleanup"
            /\ cause' = ReadFailure(rx_ret)
            /\ UNCHANGED << dsp_n, dsp_i >>
       ELSE /\ pc' = "process"
            /\ dsp_n' = Count(Field32(frame_hdr, 2))
            /\ dsp_i' = 0
            /\ UNCHANGED cause
    /\ RecvDone
    /\ UNCHANGED << retval, g_running, cfgVars, res, numVars, discVars, timeout, disc_open,
                    wsa_open, trying_localhost, netVars, hdr_reads,
                    bufVars, nframes, dspVars, audioVars >>

\* the [META] line: freq = (center_freq_hi << 32) | center_freq_lo, shown
\* here as its two halves, then sample_rate and gain_reduction
MetaLine(m) == << Field32(m, 4), Field32(m, 3), Field32(m, 1), Field32(m, 5) >>

\* the metadata branch with the session ended when the sample_format of the
\* metadata is not the one of the stream header
MetaPayloadChecked ==
    /\ pc = "ck_meta"
    /\ IF rx_ret # rx_len \/ Field32(meta, 2) # Field32(header, 3)
       THEN /\ pc' = "cleanup"
            /\ cause' = ReadFailure(rx_ret)
            /\ UNCHANGED meta_log
       ELSE /\ pc' = "loop"
            /\ meta_log' = MetaLine(meta)
            /\ UNCHANGED cause
    /\ RecvDone
    /\ UNCHANGED << retval, g_running, cfgVars, res, numVars, discVars, timeout,
                    disc_open, wsa_open, trying_localhost, netVars, hdr_reads,
                    header, frame_hdr, meta, wire, wire_pairs, frame_buffer,
                    nframes, dsp_n, dsp_i, dspVars, audioVars >>

\* the metadata bytes came back: break, or log the [META] line
MetaPayload ==
    /\ pc = "ck_meta"
    /\ IF rx_ret # rx_len
       THEN /\ pc' = "cleanup"
            /\ cause' = ReadFailure(rx_ret)
            /\ UNCHANGED meta_log
       ELSE /\ pc' = "loop"
            /\ meta_log' = MetaLine(meta)
            /\ UNCHANGED cause
    /\ RecvDone
    /\ UNCHANGED << retval, g_running, cfgVars, res, numVars, discVars, timeout, disc_open,
                    wsa_open, trying_localhost, netVars, hdr_reads,
                    header, frame_hdr, meta, wire, wire_pairs, frame_buffer,
                    nframes, dsp_n, dsp_i, dspVars, audioVars >>


-----------------------------------------------------------------------------
(* process_iq_samples                                                      *)

\* input samples after which the accumulation buffer reaches AUDIO_BUFFER_SIZE:
\* the first store comes after DECIMATION_FACTOR - g_decim_counter samples,
\* every later one DECIMATION_FACTOR samples after the one before
SamplesToFlushAtCapacity(decim, count) ==
    (AUDIO_OUT_CAPACITY - count) * DECIMATION_FACTOR - decim

SamplesToFlush(decim, count) ==
    (AUDIO_BUFFER_SIZE - count) * DECIMATION_FACTOR - decim

\* g_decim_counter after m more samples: ++ on each, reset at DECIMATION_FACTOR
DecimAfter(decim, m) == (decim + m) % DECIMATION_FACTOR

\* the same with the counter started afresh
StoredFromZero(decim, m) == m \div DECIMATION_FACTOR

\* samples stored in g_audio_out over m more samples
Stored(decim, m) == (decim + m) \div DECIMATION_FACTOR

\* audio_write called only inside the raw-output branch
CallsAudioWriteIfRaw == g_stdout_mode /\ g_audio_enabled

\* if (g_audio_enabled) audio_write(g_audio_out, g_audio_out_count)
CallsAudioWrite == g_audio_enabled

\* lowpass_process with lp->b2 = lp->x1 written for lp->x2 = lp->x1
LowpassInputsClobbering(lp, x, m) ==
    [lp EXCEPT !.x1 = x, !.b2 = IF m = 1 THEN lp.x1 ELSE x]

\* lowpass_process on m >= 1 samples of value x: x2 = x1; x1 = x
LowpassInputs(lp, x, m) ==
    IF m = 1 THEN [lp EXCEPT !.x1 = x, !.x2 = lp.x1]
    ELSE [lp EXCEPT !.x1 = x, !.x2 = x]

\* the body of the for loop, run for the samples up to and including the one
\* that fills the accumulation buffer, or to the end of the frame; at a full
\* buffer the raw block is written and audio_write is called.  The samples
\* are those frame_buffer holds: what no recv() has written since malloc is
\* indeterminate; a run of the loop that starts past the end of the
\* allocation is left to ProcessFault
ProcessSamples ==
    /\ pc = "process"
    /\ dsp_i < dsp_n
    /\ dsp_i <= FRAME_BUFFER_PAIRS
    /\ \E held \in (IF frame_buffer.pair = << >> THEN Payloads
                    ELSE {frame_buffer.pair}) :
       LET left == dsp_n - dsp_i
           need == SamplesToFlush(g_decim_counter, g_audio_out_count)
           m    == IF left < need THEN left ELSE need
           cnt  == g_audio_out_count + Stored(g_decim_counter, m)
       IN  /\ dsp_i' = dsp_i + m
           /\ g_lowpass_i' = LowpassInputs(g_lowpass_i,
                   FromInt(S16(held[1], held[2])), m)
           /\ g_lowpass_q' = LowpassInputs(g_lowpass_q,
                   FromInt(S16(held[3], held[4])), m)
           /\ chain_runs' = chain_runs + m
           /\ g_decim_counter' = DecimAfter(g_decim_counter, m)
           /\ IF cnt >= AUDIO_BUFFER_SIZE
              THEN /\ raw_blocks' = IF g_stdout_mode THEN raw_blocks + 1 ELSE raw_blocks
                   /\ IF CallsAudioWrite
                      THEN /\ g_audio_out_count' = cnt
                           /\ pc' = "audio_write"
                      ELSE /\ g_audio_out_count' = 0
                           /\ pc' = "process"
              ELSE /\ g_audio_out_count' = cnt
                   /\ pc' = "process"
                   /\ UNCHANGED raw_blocks
    /\ UNCHANGED << retval, g_running, cfgVars, res, numVars, discVars, timeout, disc_open,
                    wsa_open, trying_localhost, netVars, rxVars, hdr_reads,
                    bufVars, nframes, dsp_n, cause, g_audio_running,
                    g_current_buffer, inqueue, dev_queue, audio_blocks >>

\* samples read past the end of frame_buffer: undefined behaviour, the
\* process may die on the read
ProcessFault ==
    /\ pc = "process"
    /\ dsp_i < dsp_n
    /\ dsp_n > FRAME_BUFFER_PAIRS
    /\ pc' = "crashed"
    /\ UNCHANGED << retval, g_running, cfgVars, res, numVars, discVars, timeout, disc_open,
                    wsa_open, trying_localhost, netVars, rxVars, hdr_reads,
                    bufVars, nframes, loopVars, dspVars, audioVars >>

\* the for loop is over: back to while (g_running)
ProcessReturn ==
    /\ pc = "process"
    /\ dsp_i >= dsp_n
    /\ pc' = "loop"
    /\ UNCHANGED << retval, g_running, cfgVars, res, numVars, discVars, timeout, disc_open,
                    wsa_open, trying_localhost, netVars, rxVars, hdr_reads,
                    bufVars, nframes, loopVars, dspVars, audioVars >>

-----------------------------------------------------------------------------
(* audio_write and the device                                              *)

\* audio_write without its first line: it goes for the buffer in any case
AudioWriteEnterUnguarded ==
    /\ pc = "audio_write"
    /\ pc' = "aw_check"
    /\ UNCHANGED << retval, g_running, cfgVars, res, numVars, discVars, timeout, disc_open,
                    wsa_open, trying_localhost, netVars, rxVars, hdr_reads,
                    bufVars, nframes, loopVars, dspVars, audioVars >>

\* if (!g_audio_running || count == 0) return; EnterCriticalSection
AudioWriteEnter ==
    /\ pc = "audio_write"
    /\ pc' = IF ~g_audio_running \/ g_audio_out_count = 0
             THEN "flushed" ELSE "aw_check"
    /\ UNCHANGED << retval, g_running, cfgVars, res, numVars, discVars, timeout, disc_open,
                    wsa_open, trying_localhost, netVars, rxVars, hdr_reads,
                    bufVars, nframes, loopVars, dspVars, audioVars >>

\* audio_write without its wait loop
AudioWaitsNever(busy, running) == FALSE

\* the wait loop of audio_write going round on a flag it never reads again
AudioWaitsForEver(busy, running) == TRUE

\* the wait loop of audio_write goes round: while (hdr->dwFlags & WHDR_INQUEUE)
AudioWaits(busy, running) == busy

\* the main thread is between EnterCriticalSection(&g_audio_cs) and
\* LeaveCriticalSection(&g_audio_cs); no other thread enters g_audio_cs
InCriticalSection == pc = "aw_check"

\* audio_write without g_current_buffer = (g_current_buffer + 1) % AUDIO_BUFFERS
AudioWriteCheckStaying ==
    /\ pc = "aw_check"
    /\ IF AudioWaits(inqueue[g_current_buffer], g_running)
       THEN /\ pc' = "aw_sleep"
            /\ UNCHANGED audioVars
       ELSE /\ inqueue' = [inqueue EXCEPT ![g_current_buffer] = TRUE]
            /\ dev_queue' = Append(dev_queue, g_current_buffer)
            /\ audio_blocks' = audio_blocks + 1
            /\ pc' = "flushed"
            /\ UNCHANGED << g_audio_running, raw_blocks, g_current_buffer >>
    /\ UNCHANGED << retval, g_running, cfgVars, res, numVars, discVars, timeout, disc_open,
                    wsa_open, trying_localhost, netVars, rxVars, hdr_reads,
                    bufVars, nframes, loopVars, dspVars >>

\* the test of the wait loop: sleep, or copy the block, waveOutWrite, advance
AudioWriteCheck ==
    /\ pc = "aw_check"
    /\ IF AudioWaits(inqueue[g_current_buffer], g_running)
       THEN /\ pc' = "aw_sleep"
            /\ UNCHANGED audioVars
       ELSE /\ inqueue' = [inqueue EXCEPT ![g_current_buffer] = TRUE]
            /\ dev_queue' = Append(dev_queue, g_current_buffer)
            /\ audio_blocks' = audio_blocks + 1
            /\ g_current_buffer' = (g_current_buffer + 1) % AUDIO_BUFFERS
            /\ pc' = "flushed"
            /\ UNCHANGED << g_audio_running, raw_blocks >>
    /\ UNCHANGED << retval, g_running, cfgVars, res, numVars, discVars, timeout, disc_open,
                    wsa_open, trying_localhost, netVars, rxVars, hdr_reads,
                    bufVars, nframes, loopVars, dspVars >>

\* LeaveCriticalSection; Sleep(1); EnterCriticalSection
AudioWriteSleep ==
    /\ pc = "aw_sleep"
    /\ pc' = "aw_check"
    /\ UNCHANGED << retval, g_running, cfgVars, res, numVars, discVars, timeout, disc_open,
                    wsa_open, trying_localhost, netVars, rxVars, hdr_reads,
                    bufVars, nframes, loopVars, dspVars, audioVars >>

\* the flush ending with g_audio_out_count-- in place of g_audio_out_count = 0
FlushedDroppingOne ==
    /\ pc = "flushed"
    /\ g_audio_out_count' = g_audio_out_count - 1
    /\ pc' = "process"
    /\ UNCHANGED << retval, g_running, cfgVars, res, numVars, discVars, timeout, disc_open,
                    wsa_open, trying_localhost, netVars, rxVars, hdr_reads,
                    bufVars, nframes, loopVars, g_lowpass_i, g_lowpass_q,
                    chain_runs, g_decim_counter, audioVars >>

\* g_audio_out_count = 0 after the sinks were served
Flushed ==
    /\ pc = "flushed"
    /\ g_audio_out_count' = 0
    /\ pc' = "process"
    /\ UNCHANGED << retval, g_running, cfgVars, res, numVars, discVars, timeout, disc_open,
                    wsa_open, trying_localhost, netVars, rxVars, hdr_reads,
                    bufVars, nframes, loopVars, g_lowpass_i, g_lowpass_q,
                    chain_runs, g_decim_counter, audioVars >>

\* the device finishes its oldest queued buffer and clears WHDR_INQUEUE
DeviceDone ==
    /\ pc \notin {"exited", "crashed"}
    /\ dev_queue # << >>
    /\ inqueue' = [inqueue EXCEPT ![Head(dev_queue)] = FALSE]
    /\ dev_queue' = Tail(dev_queue)
    /\ UNCHANGED << pc, retval, g_running, cfgVars, res, numVars, discVars, timeout,
                    disc_open, wsa_open, trying_localhost, netVars, rxVars,
                    hdr_reads, bufVars, nframes, loopVars, dspVars,
                    g_audio_running, g_current_buffer, raw_blocks,
                    audio_blocks >>

-----------------------------------------------------------------------------
(* main(): cleanup                                                         *)

\* free(frame_buffer); closesocket; audio_close; pn_discovery_shutdown;
\* socket_cleanup; return 0.  free() of a block whose end was overrun is
\* undefined behaviour: the heap check may end the process
Cleanup ==
    /\ pc = "cleanup"
    /\ \/ LeaveClosing(LoopExitStatus(cause))
       \/ /\ frame_buffer.overrun
          /\ pc' = "crashed"
          /\ UNCHANGED << retval, disc_open, wsa_open, sock_open, audioVars, res >>
    /\ UNCHANGED << g_running, cfgVars, numVars, discVars, timeout, trying_localhost,
                    conn_args, conn_log, rxVars, hdr_reads, bufVars, nframes,
                    loopVars, dspVars >>

-----------------------------------------------------------------------------
(* Specification                                                           *)

Next ==
    \/ signal_handler
    \/ on_service_found
    \/ on_service_found_port
    \/ SocketInit
    \/ DiscoveryInit
    \/ DiscoveryWait
    \/ DiscoveryCheck
    \/ DspInit
    \/ AudioInit
    \/ ConnectCall
    \/ ConnectPton
    \/ ConnectDo
    \/ RecvCall
    \/ RecvReturn
    \/ ReadStreamHeader
    \/ AllocFrameBuffer
    \/ LoopTest
    \/ FrameHeader
    \/ DataPayload
    \/ MetaPayload
    \/ ProcessSamples
    \/ ProcessFault
    \/ ProcessReturn
    \/ AudioWriteEnter
    \/ AudioWriteCheck
    \/ AudioWriteSleep
    \/ Flushed
    \/ DeviceDone
    \/ Cleanup

Spec == Init /\ [][Next]_vars

TypeOK ==
    /\ pc \in {"start", "disc_init", "disc_wait", "disc_check", "dsp_init",
               "audio_init", "connect", "conn_pton", "conn_connect",
               "rd_header", "ck_header", "alloc", "loop", "rd_frame",
               "ck_frame", "rd_data", "ck_data", "rd_meta", "ck_meta",
               "process", "audio_write", "aw_check", "aw_sleep", "flushed",
               "cleanup", "exited", "crashed"}
    /\ retval \in {"none", "0", "1"}
    /\ g_decim_counter \in 0 .. DECIMATION_FACTOR - 1
    /\ g_audio_out_count \in 0 .. AUDIO_BUFFER_SIZE
    /\ g_current_buffer \in 0 .. AUDIO_BUFFERS - 1


-----------------------------------------------------------------------------
(* Session states of the protocol demultiplexer                            *)

CheckPcs == {"ck_header", "ck_frame", "ck_data", "ck_meta"}

\* a full block is in g_audio_out and g_audio_out_count is not yet reset
FlushPcs == {"audio_write", "aw_check", "aw_sleep", "flushed"}

\* times the accumulation buffer has filled since the DSP was initialised
Flushes == chain_runs \div (DECIMATION_FACTOR * AUDIO_BUFFER_SIZE)

\* 0 Connecting, 1 HeaderExchange, 2 Streaming, 3 Closed
Phase(p) ==
    CASE p \in {"start", "disc_init", "disc_wait", "disc_check", "dsp_init",
                "audio_init", "connect", "conn_pton", "conn_connect"} -> 0
      [] p \in {"rd_header", "ck_header"} -> 1
      [] p \in {"exited", "crashed"} -> 3
      [] OTHER -> 2

HeaderReceived == header # << >>

-----------------------------------------------------------------------------
(* C1..C10                                                                 *)

\* C1: once a stream header whose sample_format is not IQ_FORMAT_S16 has been
\* received, the session never enters Streaming: no frame header is asked of
\* the socket, no sample reaches the DSP chain, and main() can only return 1.
C1_FormatRejected ==
    (HeaderReceived /\ Field32(header, 3) # N32(IQ_FORMAT_S16)) =>
        /\ pc \in {"rd_header", "ck_header", "exited"}
        /\ hdr_reads = 0
        /\ nframes = 0
        /\ chain_runs = 0
        /\ pc = "exited" => (retval = "1" /\ ~sock_open)

C1_Witness ==
    /\ HeaderReceived
    /\ Field32(header, 0) = IQ_MAGIC_HEADER
    /\ Field32(header, 3) = N32(2)
    /\ pc = "exited"
    /\ retval = "1"

\* C2: when read_stream_header comes back from recv_full with a header that
\* is short or whose magic is not PHXI, the only step main() takes is to
\* close the socket and return 1; no frame header is ever asked for,
\* whatever the other header fields are.
C2_MagicRejected ==
    [][ (pc = "ck_header"
           /\ (rx_ret # SIZEOF_STREAM_HEADER \/ Field32(header, 0) # IQ_MAGIC_HEADER))
        => /\ pc' \in {"ck_header", "exited"}
           /\ hdr_reads' = 0
           /\ pc' = "exited" => (retval' = "1" /\ ~sock_open') ]_vars

C2_Witness ==
    /\ HeaderReceived
    /\ Field32(header, 0) # IQ_MAGIC_HEADER
    /\ Field32(header, 3) = N32(IQ_FORMAT_S16)
    /\ pc = "exited"
    /\ retval = "1"
    /\ ~sock_open

\* C3: the session moves through Connecting, HeaderExchange, Streaming, Closed
\* in that order, one state at a time or straight to Closed; a frame header is
\* asked of the socket only after a stream header with the right magic and
\* format has been accepted; recv() is issued only on the open socket, in
\* HeaderExchange or Streaming, and nothing moves after Closed.
C3_StateOrder ==
    [][ /\ Phase(pc') >= Phase(pc)
        /\ Phase(pc') # Phase(pc) => (Phase(pc') = Phase(pc) + 1 \/ Phase(pc') = 3)
        /\ hdr_reads' # hdr_reads =>
              /\ Phase(pc') = 2
              /\ Len(header) = SIZEOF_STREAM_HEADER
              /\ Field32(header, 0) = IQ_MAGIC_HEADER
              /\ Field32(header, 3) = N32(IQ_FORMAT_S16)
        /\ rx_calls' > rx_calls => (sock_open /\ Phase(pc) \in {1, 2})
        /\ Phase(pc) = 3 => UNCHANGED vars ]_vars

C3_Witness ==
    /\ pc = "exited"
    /\ retval = "0"
    /\ nframes = MaxMixedFrames
    /\ stream_kind = "mixed"
    /\ meta_log # << >>

\* C4 (as claimed): when the streaming loop was left because recv() failed
\* or the frame magic was not recognised, main() does not return 0.
C4_ErrorExitNonZero ==
    (pc = "exited" /\ cause \in {"recv_failed", "bad_magic"}) => retval # "0"

\* C5 (as claimed): when the discovery wait ended with no sdr_server recorded
\* and connect_to_server was then entered with the default host, the session
\* does not end without a connect() to that address.
C5_FallbackConnects ==
    (pc = "exited" /\ trying_localhost /\ g_server_host = "localhost"
       /\ Len(conn_args) >= 1)
    => conn_log # << >>

\* C6: recv_full never holds more than len bytes; a caller goes on as after a
\* full read only if total = len was returned, and a recv() that returned
\* 0 or an error makes every caller take its failure path.
C6_RecvFullExact ==
    /\ []((pc \in RecvPcs \cup CheckPcs /\ rx_len >= 0) =>
            (rx_total <= rx_len /\ rx_req <= rx_len))
    /\ [][ (pc \in CheckPcs /\ pc' # pc) =>
             IF pc' \in {"alloc", "rd_data", "rd_meta", "process", "loop"}
             THEN rx_ret = rx_len /\ rx_total = rx_len
             ELSE pc' \in {"cleanup", "exited"}
                    /\ (rx_ret = -1 \/ rx_total # rx_len
                          \/ pc \in {"ck_header", "ck_frame"}) ]_vars
    /\ [][ (pc \in CheckPcs /\ rx_ret = -1 /\ pc' # pc) =>
             pc' \in {"cleanup", "exited"} ]_vars

C6_Witness ==
    /\ pc = "ck_data"
    /\ rx_ret = rx_len
    /\ rx_len = 4000
    /\ rx_calls = MaxRecvCalls

\* C7: recv() is issued only while g_running is set; with shutdown signalled
\* and total < len, recv_full issues no recv(), returns less than len, and the
\* caller leaves the streaming loop (or, for the stream header, returns 1).
C7_RecvCancel ==
    /\ [][ rx_calls' > rx_calls => g_running ]_vars
    /\ [][ (pc \in RecvPcs /\ ~g_running /\ rx_total < rx_len) =>
             /\ rx_total' = rx_total
             /\ pc' \in {pc, CheckOf(pc)}
             /\ pc' # pc => rx_ret' # rx_len ]_vars
    /\ [][ (pc \in CheckPcs /\ rx_ret # rx_len /\ pc' # pc) =>
             pc' = IF pc = "ck_header" THEN "exited" ELSE "cleanup" ]_vars

C7_Witness ==
    /\ pc = "cleanup"
    /\ cause = "short_read"
    /\ ~g_running
    /\ nframes = 1
    /\ stream_kind = "mixed"
    /\ Field32(frame_hdr, 2) = N32(1000)

\* C8 (as claimed): with shutdown signalled, the wait loop of audio_write
\* does not go back to sleep on a buffer that is still queued.
C8_AudioWaitCancel ==
    [][ (pc = "aw_check" /\ ~g_running) => pc' # "aw_sleep" ]_vars

\* C9 (as claimed): the length asked of the socket after a data header equals
\* four bytes for each of the sample pairs the header declares.
C9_PayloadLength ==
    pc = "rd_data" => (rx_len >= 0 /\ rx_len % 4 = 0 /\ rx_len \div 4 = wire_pairs)

\* C10: after a metadata header exactly sizeof(meta) - sizeof(frame_hdr) = 16
\* bytes are asked for; the [META] line shows the frequency halves, the
\* sample rate and the gain the server put on the wire; and no step of the
\* main thread from the header to the log line changes the DSP state or the
\* accumulation buffer.
C10_MetaFrame ==
    [][ /\ (pc = "ck_frame" /\ pc' # pc /\ rx_ret = SIZEOF_DATA_FRAME
              /\ Field32(frame_hdr, 0) = IQ_MAGIC_META)
            => (pc' = "rd_meta" /\ rx_len' = 16 /\ rx_total' = 0)
        /\ (pc = "ck_meta" /\ pc' = "loop")
            => /\ meta = wire
               /\ \A t \in MetaRecords :
                     wire = Pack(t) => meta_log' = << t[5], t[4], t[2], t[6] >>
        /\ (pc \in {"rd_meta", "ck_meta"}
              \/ (pc = "ck_frame" /\ rx_ret = SIZEOF_DATA_FRAME
                    /\ Field32(frame_hdr, 0) = IQ_MAGIC_META))
            => UNCHANGED << dspVars, frame_buffer, dsp_n, dsp_i >> ]_vars

C10_Witness ==
    /\ pc = "loop"
    /\ chain_runs = 1000
    /\ nframes = 2
    /\ meta_log = << N32(2), N32(705032704), N32(96000), N32(59) >>

-----------------------------------------------------------------------------
(* C11..C20                                                                *)

\* C11: a frame header read in full whose magic is neither IQDQ nor META
\* takes main() straight to the code after the loop; from then on no frame
\* header is asked for, no recv() is issued and no frame is delivered.
C11_UnknownMagic ==
    [][ /\ (pc = "ck_frame" /\ pc' # pc /\ rx_ret = SIZEOF_DATA_FRAME
              /\ Field32(frame_hdr, 0) \notin {IQ_MAGIC_DATA, IQ_MAGIC_META})
            => /\ pc' = "cleanup"
               /\ cause' = "bad_magic"
               /\ rx_len' = 0
        /\ cause = "bad_magic"
            => /\ pc' \in {"cleanup", "exited", "crashed"}
               /\ UNCHANGED << hdr_reads, nframes, rx_calls, rx_total, rx_len,
                               frame_hdr, wire, cause >> ]_vars

C11_Witness ==
    /\ pc = "exited"
    /\ cause = "bad_magic"
    /\ stream_kind = "mixed"
    /\ nframes = 1
    /\ hdr_reads = 1

\* C12: with N samples through the chain since DSP start-up, the decimation
\* counter is N mod 42 and floor(N / 42) samples have been stored, whatever
\* the frames were that brought them: the fill count is floor(N / 42) modulo
\* the block size, the raw blocks written account for the rest, and 1000
\* samples leave 23 in the buffer.
C12_DecimationCount ==
    /\ g_decim_counter = chain_runs % DECIMATION_FACTOR
    /\ g_audio_out_count =
         IF pc \in FlushPcs THEN AUDIO_BUFFER_SIZE
         ELSE (chain_runs \div DECIMATION_FACTOR) % AUDIO_BUFFER_SIZE
    /\ g_stdout_mode =>
         AUDIO_BUFFER_SIZE * raw_blocks
           + (IF pc \in FlushPcs THEN 0 ELSE g_audio_out_count)
         = chain_runs \div DECIMATION_FACTOR
    /\ chain_runs = 1000 => g_audio_out_count = 23

C12_Witness ==
    /\ pc = "loop"
    /\ nframes = 2
    /\ chain_runs = 2000
    /\ g_audio_out_count = 47
    /\ g_decim_counter = 26

\* C13: the fill count stays within 0 .. 4095 except while a full block of
\* exactly 4096 is being handed to the sinks, which is below the 8192
\* elements of g_audio_out; the count goes down only by the reset to 0, and
\* a block is written or submitted only with 4096 samples accumulated.
C13_BufferBound ==
    /\ [](/\ g_audio_out_count >= 0
          /\ g_audio_out_count < AUDIO_OUT_CAPACITY
          /\ pc \notin FlushPcs => g_audio_out_count < AUDIO_BUFFER_SIZE
          /\ pc \in FlushPcs => g_audio_out_count = AUDIO_BUFFER_SIZE)
    /\ [][ /\ g_audio_out_count' < g_audio_out_count =>
                /\ g_audio_out_count' = 0
                /\ chain_runs' % (DECIMATION_FACTOR * AUDIO_BUFFER_SIZE) = 0
                /\ chain_runs' > 0
           /\ raw_blocks' # raw_blocks =>
                /\ chain_runs' % (DECIMATION_FACTOR * AUDIO_BUFFER_SIZE) = 0
                /\ chain_runs' > chain_runs
           /\ audio_blocks' # audio_blocks =>
                g_audio_out_count = AUDIO_BUFFER_SIZE ]_vars

C13_Witness ==
    /\ pc = "flushed"
    /\ g_audio_out_count = AUDIO_BUFFER_SIZE
    /\ audio_blocks = 2

\* C14: after every fill of the accumulation buffer, stdout has been written
\* one block if and only if g_stdout_mode, the device has been submitted one
\* block if and only if g_audio_enabled, and outside the flush itself the
\* count is back below the threshold, for each of the four settings.
C14_IndependentSinks ==
    /\ raw_blocks = IF g_stdout_mode THEN Flushes ELSE 0
    /\ audio_blocks =
         IF g_audio_enabled
         THEN Flushes - (IF pc \in {"audio_write", "aw_check", "aw_sleep"}
                         THEN 1 ELSE 0)
         ELSE 0
    /\ pc \notin FlushPcs =>
         g_audio_out_count = (chain_runs \div DECIMATION_FACTOR) % AUDIO_BUFFER_SIZE

C14_Witness ==
    /\ g_stdout_mode
    /\ ~g_audio_enabled
    /\ raw_blocks = 2
    /\ audio_blocks = 0
    /\ g_audio_out_count = 0

\* C15: a block is submitted only into the buffer g_current_buffer names and
\* only while its WHDR_INQUEUE flag is clear; the index then advances by one
\* modulo AUDIO_BUFFERS and changes at no other step.
C15_RoundRobin ==
    /\ [](g_current_buffer = audio_blocks % AUDIO_BUFFERS)
    /\ [][ /\ audio_blocks' # audio_blocks =>
                /\ audio_blocks' = audio_blocks + 1
                /\ ~inqueue[g_current_buffer]
                /\ inqueue' = [inqueue EXCEPT ![g_current_buffer] = TRUE]
                /\ dev_queue' = Append(dev_queue, g_current_buffer)
                /\ g_current_buffer' = (g_current_buffer + 1) % AUDIO_BUFFERS
           /\ audio_blocks' = audio_blocks =>
                /\ g_current_buffer' = g_current_buffer
                /\ \A i \in 0 .. AUDIO_BUFFERS - 1 : inqueue'[i] => inqueue[i] ]_vars

C15_Witness ==
    /\ audio_blocks = AUDIO_BUFFERS + 1
    /\ g_current_buffer = 1
    /\ inqueue[0]
    /\ pc = "flushed"

\* C16 (as claimed): the device clears a buffer's WHDR_INQUEUE flag only
\* while the main thread is outside the critical section in which it tests
\* the flag.
C16_FlagExclusive ==
    [][ (g_audio_running' /\ \E i \in 0 .. AUDIO_BUFFERS - 1 :
                                inqueue[i] /\ ~inqueue'[i])
        => ~InCriticalSection ]_vars

\* C17: connect() is issued at most once and socket() succeeds at most once
\* in a run; a connect() is never issued after another; a read that came back
\* short or failed is followed by the code after the loop or by the return,
\* and from there on no recv(), no frame header read and no connect().
C17_NoReconnect ==
    /\ [](Len(conn_log) <= 1 /\ res.sock_opened <= 1)
    /\ [][ /\ conn_log' # conn_log => (conn_log = << >> /\ pc = "conn_connect")
           /\ (pc = "conn_connect" /\ pc' \notin {pc, "rd_header"}) => pc' = "exited"
           /\ (pc \in CheckPcs /\ rx_ret # rx_len /\ pc' # pc)
                => pc' \in {"cleanup", "exited"}
           /\ pc \in {"cleanup", "exited", "crashed"}
                => /\ pc' \in {"cleanup", "exited", "crashed"}
                   /\ UNCHANGED << conn_log, hdr_reads, rx_calls, rx_total >> ]_vars

C17_Witness ==
    /\ pc = "exited"
    /\ retval = "1"
    /\ Len(conn_log) = 1
    /\ res.sock_opened = 1
    /\ header = << >>
    /\ rx_calls = 0
    /\ hdr_reads = 0

\* C18: no resource is released more often than it was acquired, and when
\* main() has returned the socket was closed once if socket() succeeded and
\* never otherwise, the wave device was closed if and only if waveOutOpen
\* succeeded, and discovery was shut down if and only if pn_discovery_init
\* succeeded.
C18_ResourceRelease ==
    /\ res.sock_closed <= res.sock_opened
    /\ res.wave_closed <= res.wave_opened
    /\ res.disc_shut <= res.disc_inited
    /\ sock_open <=> res.sock_opened = res.sock_closed + 1
    /\ pc = "exited" =>
         /\ res.sock_closed = res.sock_opened
         /\ res.wave_closed = res.wave_opened
         /\ res.disc_shut = res.disc_inited
         /\ ~sock_open /\ ~g_audio_running /\ ~disc_open

C18_Witness ==
    /\ pc = "exited"
    /\ cause = "recv_failed"
    /\ res = [sock_opened |-> 1, sock_closed |-> 1, wave_opened |-> 1,
              wave_closed |-> 1, disc_inited |-> 1, disc_shut |-> 1]

\* C19: on_service_found stores the notification's ip and data port when it
\* is not a withdrawal, names sdr_server and has a data port above 0; for
\* any other notification, and at every step outside the callback, host and
\* port stay as they are.
C19_DiscoveryFilter ==
    [][ /\ (cb_pending = << >> /\ cb_pending' # << >>) =>
              LET n == cb_pending'[1] IN
              /\ g_server_port' = g_server_port
              /\ g_server_host' =
                   IF ~n.is_bye /\ n.service = "sdr_server" /\ n.data_port > 0
                   THEN n.ip ELSE g_server_host
        /\ (cb_pending # << >> /\ cb_pending' = << >>) =>
              LET n == cb_pending[1] IN
              /\ g_server_host' = g_server_host
              /\ g_server_port' =
                   IF ~n.is_bye /\ n.service = "sdr_server" /\ n.data_port > 0
                   THEN n.data_port ELSE g_server_port
        /\ cb_pending' = cb_pending =>
              UNCHANGED << g_server_host, g_server_port >> ]_vars

C19_Witness ==
    /\ cb_pending # << >>
    /\ cb_pending[1].is_bye
    /\ cb_pending[1].service = "sdr_server"
    /\ g_server_host = "192.168.1.20"
    /\ g_server_port = 4600

\* C20: frame headers that agree in magic and num_samples take the same
\* branch and give the same payload length and sample count, whatever their
\* sequence and flags; a data header read in full is always followed by the
\* payload read of that length and, once the payload is in, by the DSP run
\* on that count, and neither step touches the DSP or audio state.
C20_SequenceIgnored ==
    /\ [](\A h1, h2 \in Frames :
            (SubSeq(h1, 1, 4) = SubSeq(h2, 1, 4)
               /\ SubSeq(h1, 9, 12) = SubSeq(h2, 9, 12)) =>
            /\ Dispatch(h1) = Dispatch(h2)
            /\ DataSize(Field32(h1, 2)) = DataSize(Field32(h2, 2))
            /\ Count(Field32(h1, 2)) = Count(Field32(h2, 2)))
    /\ [][ /\ (pc = "ck_frame" /\ pc' # pc /\ rx_ret = SIZEOF_DATA_FRAME
                 /\ Field32(frame_hdr, 0) = IQ_MAGIC_DATA)
               => /\ pc' = "rd_data"
                  /\ rx_len' = ToInt(DataSize(Field32(frame_hdr, 2)))
                  /\ UNCHANGED << dspVars, audioVars, cause, retval >>
           /\ (pc = "ck_data" /\ pc' # pc /\ rx_ret = rx_len)
               => /\ pc' = "process"
                  /\ dsp_n' = Count(Field32(frame_hdr, 2))
                  /\ dsp_i' = 0
                  /\ UNCHANGED << dspVars, audioVars, cause, retval >> ]_vars

C20_Witness ==
    /\ pc = "loop"
    /\ stream_kind = "mixed"
    /\ nframes = 2
    /\ chain_runs = 2000
    /\ Field32(frame_hdr, 1) = N32(3)
    /\ Field32(frame_hdr, 3) = N32(1)

-----------------------------------------------------------------------------
(* The DSP functions driven directly                                       *)
(*                                                                         *)
(* The specifications below run the DSP functions on their own, sample by  *)
(* sample and with the float values carried, which Spec does not do: main()*)
(* is not started (Launch), and the functions are fed generated inputs.    *)

\* the command line, fixed: no discovery, no stdout copy, no audio device
Detached ==
    /\ use_discovery = FALSE
    /\ g_stdout_mode = FALSE
    /\ g_audio_enabled = FALSE
    /\ stream_kind = "mixed"
    /\ g_server_host = "127.0.0.1"
    /\ g_server_port = IQ_DEFAULT_PORT

\* what no DSP function touches
mainVars == << pc, retval, g_running, timeout, disc_open, wsa_open,
               trying_localhost, hdr_reads, nframes, dsp_n, cause, netVars,
               rxVars, bufVars, audioVars, discVars, cfgVars, res >>

\* samples one call of process_iq_samples is given
MaxChainSamples == 90

\* I/Q sequences fed to process_iq_samples: a steady carrier, a strong burst
\* that stops, and silence
Signals == {"carrier", "burst", "silence"}

\* samples[2 * i], samples[2 * i + 1] of a signal
Sample(sig, i) ==
    CASE sig = "carrier" -> << 1000, 0 >>
      [] sig = "burst"   -> IF i < 30 THEN << 20000, -20000 >> ELSE << 0, 0 >>
      [] OTHER           -> << 0, 0 >>

\* values -v NUM may give g_volume: the default, a small and a negative one
Volumes == {DefaultVolume, FromInt(1), FromInt(-1000)}

\* locals of one pass of the loop body of process_iq_samples
NoLocals ==
    [I |-> FZero, Q |-> FZero, I_filt |-> FZero, Q_filt |-> FZero,
     magnitude |-> FZero, audio |-> FZero]

InitChain ==
    /\ Launch
    /\ Detached
    /\ dsp_n = MaxChainSamples /\ dsp_i = 0
    /\ g_lowpass_i = MainDesign
    /\ g_lowpass_q = MainDesign
    /\ g_dc_block = dc_block_init
    /\ g_audio_agc = audio_agc_init(AGC_TARGET)
    /\ g_decim_counter = 0
    /\ g_audio_out_count = 0
    /\ g_audio_out = << >>
    /\ g_volume \in Volumes
    /\ signal \in Signals
    /\ stage = "fetch"
    /\ loc = NoLocals
    /\ upd = NoCalls

\* the loop body with the decimation test moved ahead of the DC blocker
StageAfterEarlyDecimation(st) ==
    CASE st = "fetch"     -> "lowpass_i"
      [] st = "lowpass_i" -> "lowpass_q"
      [] st = "lowpass_q" -> "envelope"
      [] st = "envelope"  -> "decimate"
      [] st = "decimate"  -> "dc_block"
      [] st = "dc_block"  -> "agc"
      [] st = "agc"       -> "fetch"

\* the statement that follows each statement of the loop body
StageAfter(st) ==
    CASE st = "fetch"     -> "lowpass_i"
      [] st = "lowpass_i" -> "lowpass_q"
      [] st = "lowpass_q" -> "envelope"
      [] st = "envelope"  -> "dc_block"
      [] st = "dc_block"  -> "agc"
      [] st = "agc"       -> "decimate"
      [] st = "decimate"  -> "fetch"

\* float I = (float)samples[i * 2]; float Q = (float)samples[i * 2 + 1]
ChainFetch ==
    /\ stage = "fetch"
    /\ dsp_i < dsp_n
    /\ loc' = [loc EXCEPT !.I = FromInt(Sample(signal, dsp_i)[1]),
                          !.Q = FromInt(Sample(signal, dsp_i)[2])]
    /\ stage' = StageAfter(stage)
    /\ UNCHANGED << mainVars, dspVars, dsp_i, g_dc_block, g_audio_agc,
                    g_volume, g_audio_out, upd, signal >>

\* i < num_samples fails: process_iq_samples returns
ChainReturn ==
    /\ stage = "fetch"
    /\ dsp_i >= dsp_n
    /\ stage' = "returned"
    /\ UNCHANGED << mainVars, dspVars, dsp_i, g_dc_block, g_audio_agc,
                    g_volume, g_audio_out, loc, upd, signal >>

\* float I_filt = lowpass_process(&g_lowpass_i, I)
ChainLowpassI ==
    /\ stage = "lowpass_i"
    /\ LET r == lowpass_process(g_lowpass_i, loc.I)
       IN  /\ g_lowpass_i' = r.lp
           /\ loc' = [loc EXCEPT !.I_filt = r.y]
    /\ upd' = [upd EXCEPT !.lowpass_i = @ + 1]
    /\ stage' = StageAfter(stage)
    /\ UNCHANGED << mainVars, g_lowpass_q, chain_runs, g_decim_counter,
                    g_audio_out_count, dsp_i, g_dc_block, g_audio_agc,
                    g_volume, g_audio_out, signal >>

\* float Q_filt = lowpass_process(&g_lowpass_q, Q)
ChainLowpassQ ==
    /\ stage = "lowpass_q"
    /\ LET r == lowpass_process(g_lowpass_q, loc.Q)
       IN  /\ g_lowpass_q' = r.lp
           /\ loc' = [loc EXCEPT !.Q_filt = r.y]
    /\ upd' = [upd EXCEPT !.lowpass_q = @ + 1]
    /\ stage' = StageAfter(stage)
    /\ UNCHANGED << mainVars, g_lowpass_i, chain_runs, g_decim_counter,
                    g_audio_out_count, dsp_i, g_dc_block, g_audio_agc,
                    g_volume, g_audio_out, signal >>

\* float magnitude = sqrtf(I_filt * I_filt + Q_filt * Q_filt)
ChainEnvelope ==
    /\ stage = "envelope"
    /\ loc' = [loc EXCEPT !.magnitude =
                 FSqrt(FAdd(FMul(loc.I_filt, loc.I_filt),
                            FMul(loc.Q_filt, loc.Q_filt)))]
    /\ stage' = StageAfter(stage)
    /\ UNCHANGED << mainVars, dspVars, dsp_i, g_dc_block, g_audio_agc,
                    g_volume, g_audio_out, upd, signal >>

\* float audio = dc_block_process(&g_dc_block, magnitude)
ChainDcBlock ==
    /\ stage = "dc_block"
    /\ LET r == dc_block_process(g_dc_block, loc.magnitude)
       IN  /\ g_dc_block' = r.dc
           /\ loc' = [loc EXCEPT !.audio = r.y]
    /\ upd' = [upd EXCEPT !.dc_block = @ + 1]
    /\ stage' = StageAfter(stage)
    /\ UNCHANGED << mainVars, dspVars, dsp_i, g_audio_agc, g_volume,
                    g_audio_out, signal >>

\* audio = audio_agc_process(&g_audio_agc, audio)
ChainAgc ==
    /\ stage = "agc"
    /\ LET r == audio_agc_process(g_audio_agc, loc.audio)
       IN  /\ g_audio_agc' = r.agc
           /\ loc' = [loc EXCEPT !.audio = r.ret]
    /\ upd' = [upd EXCEPT !.agc = @ + 1]
    /\ stage' = StageAfter(stage)
    /\ UNCHANGED << mainVars, dspVars, dsp_i, g_dc_block, g_volume,
                    g_audio_out, signal >>

\* the clip with its lower limit left out
ClipAbove(audio) == IF FLess(FromInt(32767), audio) THEN FromInt(32767) ELSE audio

\* if (audio > 32767.0f) audio = 32767.0f; if (audio < -32768.0f) audio = -32768.0f
Clip(audio) ==
    IF FLess(FromInt(32767), audio) THEN FromInt(32767)
    ELSE IF FLess(audio, FromInt(-32768)) THEN FromInt(-32768) ELSE audio

\* g_decim_counter++ and, on every DECIMATION_FACTOR-th sample, the scaling,
\* the clip, the store and the test for a full buffer; then i++
ChainDecimate ==
    /\ stage = "decimate"
    /\ IF g_decim_counter + 1 >= DECIMATION_FACTOR
       THEN LET audio == Clip(FMul(loc.audio, g_volume))
                cnt   == g_audio_out_count + 1
            IN  /\ g_decim_counter' = 0
                /\ loc' = [loc EXCEPT !.audio = audio]
                /\ IF cnt >= AUDIO_BUFFER_SIZE
                   THEN /\ g_audio_out' = << >>
                        /\ g_audio_out_count' = 0
                   ELSE /\ g_audio_out' = Append(g_audio_out, ToInt16(audio))
                        /\ g_audio_out_count' = cnt
       ELSE /\ g_decim_counter' = g_decim_counter + 1
            /\ UNCHANGED << loc, g_audio_out, g_audio_out_count >>
    /\ chain_runs' = chain_runs + 1
    /\ dsp_i' = dsp_i + 1
    /\ stage' = StageAfter(stage)
    /\ UNCHANGED << mainVars, g_lowpass_i, g_lowpass_q, g_dc_block,
                    g_audio_agc, g_volume, upd, signal >>

NextChain ==
    \/ ChainFetch
    \/ ChainReturn
    \/ ChainLowpassI
    \/ ChainLowpassQ
    \/ ChainEnvelope
    \/ ChainDcBlock
    \/ ChainAgc
    \/ ChainDecimate

SpecChain == InitChain /\ [][NextChain]_vars

\* what the specifications of one DSP function share: main() not started
\* and the rest of the DSP state as static storage holds it
FunctionAtRest ==
    /\ Launch
    /\ Detached
    /\ dsp_n = 0 /\ dsp_i = 0
    /\ g_decim_counter = 0
    /\ g_audio_out_count = 0
    /\ g_audio_out = << >>
    /\ g_volume = DefaultVolume
    /\ upd = NoCalls

\* calls of audio_agc_process in one run
MaxAgcCalls == 3

\* levels the gain control may have tracked when a call arrives: the one
\* audio_agc_init sets, and levels around and above the target
AgcLevels == {F_0_0001, F_1, AGC_TARGET, FromInt(60000)}

\* inputs of audio_agc_process: silence, near silence (0.00001), and small
\* and large values of either sign
AgcInputs ==
    {FZero, FMul(F_0_0001, F_0_1), FromInt(1), FromInt(-30000), FromInt(90000)}

InitAgc ==
    /\ FunctionAtRest
    /\ g_lowpass_i = LowpassZero
    /\ g_lowpass_q = LowpassZero
    /\ g_dc_block = dc_block_init
    /\ \E lv \in AgcLevels :
          g_audio_agc = [audio_agc_init(AGC_TARGET) EXCEPT !.level = lv]
    /\ stage = "agc"
    /\ loc = [x |-> FZero, before |-> FZero, mag |-> FZero, moved |-> FZero,
              gain |-> FZero, ret |-> FZero]
    /\ signal = "none"

\* one call audio_agc_process(&g_audio_agc, x); before is agc->level on entry
AgcCall ==
    /\ stage = "agc"
    /\ upd.agc < MaxAgcCalls
    /\ \E x \in AgcInputs :
          LET r == audio_agc_process(g_audio_agc, x)
          IN  /\ g_audio_agc' = r.agc
              /\ loc' = [x |-> x, before |-> g_audio_agc.level, mag |-> r.mag,
                         moved |-> r.moved, gain |-> r.gain, ret |-> r.ret]
    /\ upd' = [upd EXCEPT !.agc = @ + 1]
    /\ UNCHANGED << mainVars, dspVars, dsp_i, g_dc_block, g_volume,
                    g_audio_out, stage, signal >>

NextAgc == AgcCall

SpecAgc == InitAgc /\ [][NextAgc]_vars

\* calls of dc_block_process in one run
MaxDcCalls == 1800

\* the constant fed to dc_block_process: the largest envelope of 16-bit I/Q,
\* a middle one and a small one
DcInputs == {FromInt(46341), FromInt(1000), FromInt(1)}

InitDc ==
    /\ FunctionAtRest
    /\ g_lowpass_i = LowpassZero
    /\ g_lowpass_q = LowpassZero
    /\ g_dc_block = dc_block_init
    /\ g_audio_agc = audio_agc_init(AGC_TARGET)
    /\ stage = "dc_block"
    /\ loc = [x |-> FZero, before |-> FZero, y |-> FZero]
    /\ signal \in DcInputs

\* one call dc_block_process(&g_dc_block, x) with the constant of this run;
\* before is dc->y_prev on entry
DcCall ==
    /\ stage = "dc_block"
    /\ upd.dc_block < MaxDcCalls
    /\ LET r == dc_block_process(g_dc_block, signal)
       IN  /\ g_dc_block' = r.dc
           /\ loc' = [x |-> signal, before |-> g_dc_block.y_prev, y |-> r.y]
    /\ upd' = [upd EXCEPT !.dc_block = @ + 1]
    /\ UNCHANGED << mainVars, dspVars, dsp_i, g_audio_agc, g_volume,
                    g_audio_out, stage, signal >>

NextDc == DcCall

SpecDc == InitDc /\ [][NextDc]_vars

\* calls of lowpass_process in one run
MaxLowpassCalls == 4

\* inputs of lowpass_process: the ends of the 16-bit range
LowpassInputValues == {FromInt(32767), FromInt(-32768)}

InitLowpass ==
    /\ FunctionAtRest
    /\ g_lowpass_i = LowpassZero
    /\ g_lowpass_q = LowpassZero
    /\ g_dc_block = dc_block_init
    /\ g_audio_agc = audio_agc_init(AGC_TARGET)
    /\ stage = "lowpass_init"
    /\ loc = [x |-> FZero, y |-> FZero]
    /\ signal \in LowpassDesigns

\* lowpass_init(&g_lowpass_i, cutoff_hz, sample_rate) with the design of this run
LowpassInitCall ==
    /\ stage = "lowpass_init"
    /\ g_lowpass_i' = lowpass_init(signal.cutoff_hz, signal.sample_rate)
    /\ stage' = "lowpass_i"
    /\ UNCHANGED << mainVars, g_lowpass_q, chain_runs, g_decim_counter,
                    g_audio_out_count, dsp_i, g_dc_block, g_audio_agc,
                    g_volume, g_audio_out, loc, upd, signal >>

\* one call lowpass_process(&g_lowpass_i, x)
LowpassCall ==
    /\ stage = "lowpass_i"
    /\ upd.lowpass_i < MaxLowpassCalls
    /\ \E x \in LowpassInputValues :
          LET r == lowpass_process(g_lowpass_i, x)
          IN  /\ g_lowpass_i' = r.lp
              /\ loc' = [x |-> x, y |-> r.y]
    /\ upd' = [upd EXCEPT !.lowpass_i = @ + 1]
    /\ UNCHANGED << mainVars, g_lowpass_q, chain_runs, g_decim_counter,
                    g_audio_out_count, dsp_i, g_dc_block, g_audio_agc,
                    g_volume, g_audio_out, stage, signal >>

NextLowpass ==
    \/ LowpassInitCall
    \/ LowpassCall

SpecLowpass == InitLowpass /\ [][NextLowpass]_vars

-----------------------------------------------------------------------------
(* C21..C30                                                                *)

C22_GainClamp ==
    upd.agc > 0 =>
        /\ FLeq(F_0_1, loc.gain)
        /\ FLeq(loc.gain, FromInt(100))
        /\ loc.ret = FMul(loc.x, loc.gain)

C22_Witness ==
    /\ upd.agc = MaxAgcCalls
    /\ loc.x = FMul(F_0_0001, F_0_1)
    /\ loc.before = F_0_0001
    /\ loc.gain = FromInt(100)
    /\ FLess(FromInt(100), FDiv(g_audio_agc.target, g_audio_agc.level))

\* C23: the level of the gain control is at least 0.0001 after
\* audio_agc_init and after every call of audio_agc_process, so it is never
\* zero when target / level is computed.
C23_LevelFloor ==
    /\ FLeq([s |-> 0, m |-> 13743895, e |-> -37], g_audio_agc.level)
    /\ g_audio_agc.level.m # 0
    /\ g_audio_agc.level.s = 0

C23_Witness ==
    /\ upd.agc > 0
    /\ FLess(loc.moved, F_0_0001)
    /\ g_audio_agc.level = F_0_0001

\* C24: in every call the level moves from its value on entry toward the
\* magnitude of the input by 0.01 of the distance when the magnitude is
\* above it and by 0.0001 of the distance otherwise, and before the floor is
\* applied it lies between the old level and the magnitude.
C24_AsymmetricTracking ==
    upd.agc > 0 =>
        LET rate == IF FLess(loc.before, loc.mag)
                    THEN [s |-> 0, m |-> 10737418, e |-> -30]
                    ELSE [s |-> 0, m |-> 13743895, e |-> -37]
        IN  /\ loc.mag = FAbs(loc.x)
            /\ loc.moved = FAdd(loc.before,
                                FMul(rate, FSub(loc.mag, loc.before)))
            /\ \/ FLeq(loc.before, loc.moved) /\ FLeq(loc.moved, loc.mag)
               \/ FLeq(loc.mag, loc.moved) /\ FLeq(loc.moved, loc.before)

C24_Witness ==
    /\ upd.agc > 0
    /\ FLess(loc.before, loc.moved)
    /\ FLess(loc.moved, loc.mag)
    /\ loc.x = FromInt(-30000)

\* C25: every sample stored in g_audio_out lies in -32768 .. 32767 for each
\* volume and each value the gain control returns; the scaling happens in
\* the decimation statement only, which leaves the DC blocker and the gain
\* control as they are, and the gain control is fed the output of the DC
\* blocker, not a scaled value.
C25_Clipped ==
    /\ [](\A k \in 1 .. Len(g_audio_out) :
             g_audio_out[k] >= -32768 /\ g_audio_out[k] <= 32767)
    /\ [](stage = "agc" => loc.audio = g_dc_block.y_prev)
    /\ [][stage = "decimate" =>
            UNCHANGED << g_dc_block, g_audio_agc, g_lowpass_i, g_lowpass_q >>]_vars

C25_Witness ==
    /\ stage = "returned"
    /\ g_volume = FromInt(-1000)
    /\ signal = "carrier"
    /\ g_audio_out = << -32768, -32768 >>

C27_LowpassStable ==
    (stage = "lowpass_i" /\ FLess(FZero, signal.cutoff_hz)
       /\ FLess(FMul(FromInt(2), signal.cutoff_hz), signal.sample_rate)) =>
        /\ FLess(FAbs(g_lowpass_i.a2), FromInt(1))
        /\ FLess(FSub(FAbs(g_lowpass_i.a1), FromInt(1)), g_lowpass_i.a2)

\* C28: the five coefficients of both lowpass filters are those lowpass_init
\* computes for IQ_FILTER_CUTOFF and SDR_SAMPLE_RATE from the moment the DSP
\* objects are initialised, which is before any connect() is issued, and no
\* later step changes them, whatever header or frame arrives.
C28_CoefficientsFixed ==
    /\ []((pc \notin {"start", "disc_init", "disc_wait", "disc_check", "dsp_init",
                       "exited", "crashed"}
             \/ conn_args # << >> \/ conn_log # << >> \/ res.sock_opened > 0) =>
            /\ Coefficients(g_lowpass_i) = Coefficients(MainDesign)
            /\ Coefficients(g_lowpass_q) = Coefficients(MainDesign))
    /\ [][pc # "dsp_init" =>
            /\ Coefficients(g_lowpass_i') = Coefficients(g_lowpass_i)
            /\ Coefficients(g_lowpass_q') = Coefficients(g_lowpass_q)]_vars

C28_Witness ==
    /\ pc = "loop"
    /\ nframes = 2
    /\ meta_log # << >>
    /\ chain_runs = 1000
    /\ g_lowpass_i.x1 # FZero
    /\ g_lowpass_i.b0 # FZero

\* C29: a metadata frame read in full sends the loop back for the next frame
\* whatever its sample_rate and sample_format, leaving the stream header, the
\* DSP state, the audio state and the sockets as they are; after a metadata
\* frame whose sample_rate (96000) and sample_format (2) are not those of the
\* stream header, a data frame is still read as num_samples pairs of four
\* bytes and decimated by DECIMATION_FACTOR.
C29_MetadataDisplayOnly ==
    /\ [][(pc = "ck_meta" /\ pc' # pc /\ rx_ret = rx_len) =>
            /\ pc' = "loop"
            /\ cause' = "none"
            /\ UNCHANGED << header, dspVars, audioVars, retval,
                            sock_open, res, frame_buffer >>]_vars
    /\ [][(/\ Len(meta) = SIZEOF_METADATA
           /\ Field32(meta, 1) # Field32(header, 2)
           /\ Field32(meta, 2) # Field32(header, 3)
           /\ pc = "ck_frame" /\ pc' # pc
           /\ rx_ret = SIZEOF_DATA_FRAME
           /\ Field32(frame_hdr, 0) = IQ_MAGIC_DATA
           /\ Field32(frame_hdr, 2) = N32(1000)) =>
            /\ pc' = "rd_data"
            /\ rx_len' = 4000]_vars
    /\ []((/\ Len(meta) = SIZEOF_METADATA
           /\ Field32(meta, 1) # Field32(header, 2)
           /\ Field32(meta, 2) # Field32(header, 3)
           /\ chain_runs = 1000) =>
            /\ g_decim_counter = 1000 % 42
            /\ g_audio_out_count = 1000 \div 42)

C29_Witness ==
    /\ pc = "loop"
    /\ cause = "none"
    /\ nframes = 2
    /\ Len(meta) = SIZEOF_METADATA
    /\ Field32(meta, 1) = N32(96000)
    /\ Field32(meta, 2) = N32(2)
    /\ meta_log # << >>
    /\ meta_log[3] = N32(96000)
    /\ Field32(header, 3) = N32(IQ_FORMAT_S16)
    /\ chain_runs = 1000
    /\ g_audio_out_count = 23

\* the session with the scheduling the audio path relies on: the main thread
\* keeps running inside audio_write (Sleep(1) returns), and the device
\* completes, in its own thread, every buffer it was given
SpecLive ==
    /\ Init
    /\ [][Next]_vars
    /\ WF_vars(AudioWriteEnter)
    /\ WF_vars(AudioWriteCheck)
    /\ WF_vars(AudioWriteSleep)
    /\ WF_vars(DeviceDone)

\* C30: given that the device completes every buffer submitted to it, every
\* call of audio_write returns; inside it the main thread sleeps only while
\* the device buffer it is about to fill is still in flight, and it leaves
\* the test of the wait loop with the block submitted as soon as it is not.
C30_AudioWaitLiveness ==
    /\ (pc \in {"audio_write", "aw_check", "aw_sleep"}) ~> (pc = "flushed")
    /\ [][(pc # "aw_sleep" /\ pc' = "aw_sleep") =>
            (pc = "aw_check" /\ inqueue[g_current_buffer])]_vars
    /\ [][(pc = "aw_check" /\ pc' # pc /\ ~inqueue[g_current_buffer]) =>
            (pc' = "flushed" /\ audio_blocks' = audio_blocks + 1)]_vars

C30_Witness ==
    /\ pc = "aw_sleep"
    /\ inqueue[g_current_buffer]
    /\ audio_blocks = AUDIO_BUFFERS
    /\ Len(dev_queue) = AUDIO_BUFFERS

-----------------------------------------------------------------------------
(* C31..C38                                                                *)

\* C32 (as claimed): the length asked of the socket for a payload is at most
\* the 65536 bytes of frame_buffer, and no received byte is stored past its
\* end, whatever num_samples the data header declares.
C32_FrameBufferBound ==
    /\ pc = "rd_data" => rx_len <= FrameBufferBytes
    /\ ~frame_buffer.overrun

\* C37: after a data header with num_samples = 0 the payload length is 0,
\* recv_full issues no recv(), the read counts as complete,
\* process_iq_samples runs its loop zero times, and the main thread is back
\* at the head of the streaming loop with the DSP state, the accumulation
\* buffer, the frame buffer and the sinks as they were.
C37_EmptyDataFrame ==
    /\ [][(/\ pc = "ck_frame" /\ pc' # pc
           /\ rx_ret = SIZEOF_DATA_FRAME
           /\ Field32(frame_hdr, 0) = IQ_MAGIC_DATA
           /\ Field32(frame_hdr, 2) = N32(0)) =>
            /\ pc' = "rd_data"
            /\ rx_len' = 0]_vars
    /\ [][(/\ pc \in {"rd_data", "ck_data", "process"}
           /\ Field32(frame_hdr, 2) = N32(0)) =>
            /\ rx_calls' = 0
            /\ UNCHANGED << dspVars, frame_buffer, g_audio_running,
                            g_current_buffer, raw_blocks, audio_blocks,
                            cause, nframes, hdr_reads >>
            /\ pc' # pc =>
                 << pc, pc' >> \in { << "rd_data", "ck_data" >>,
                                     << "ck_data", "process" >>,
                                     << "process", "loop" >> }]_vars

C37_Witness ==
    /\ pc = "loop"
    /\ cause = "none"
    /\ nframes = 2
    /\ hdr_reads = 2
    /\ Field32(frame_hdr, 0) = IQ_MAGIC_DATA
    /\ Field32(frame_hdr, 2) = N32(0)
    /\ chain_runs = 1000
    /\ g_audio_out_count = 23

\* C35: never more than AUDIO_BUFFERS buffers are queued at the device, each
\* at most once, and WHDR_INQUEUE is set on exactly the queued ones; whenever
\* the buffer audio_write is about to fill is still queued, all AUDIO_BUFFERS
\* are queued and it is the oldest of them, so with a device that completes
\* buffers in the order submitted the main thread goes to sleep only with
\* every buffer in flight.
C35_InFlightBound ==
    /\ [](/\ Len(dev_queue) <= AUDIO_BUFFERS
          /\ \A j, k \in 1 .. Len(dev_queue) :
                dev_queue[j] = dev_queue[k] => j = k
          /\ \A i \in 0 .. AUDIO_BUFFERS - 1 :
                inqueue[i] <=> \E k \in 1 .. Len(dev_queue) : dev_queue[k] = i
          /\ inqueue[g_current_buffer] =>
                /\ Len(dev_queue) = AUDIO_BUFFERS
                /\ Head(dev_queue) = g_current_buffer)
    /\ [][(pc # "aw_sleep" /\ pc' = "aw_sleep") =>
            /\ Len(dev_queue) = AUDIO_BUFFERS
            /\ Head(dev_queue) = g_current_buffer]_vars

C35_Witness ==
    /\ pc = "aw_check"
    /\ audio_blocks = AUDIO_BUFFERS
    /\ dev_queue = << 0, 1, 2, 3 >>
    /\ g_current_buffer = 0
    /\ inqueue[0]

C36_DiscoveryPair ==
    \A k \in 1 .. Len(conn_log) :
        \/ /\ conn_log[k][1] \in CliHosts \cup {"localhost"}
           /\ conn_log[k][2] \in CliPorts
        \/ \E n \in Notifications :
             /\ ServiceAccepted(n)
             /\ conn_log[k] = << n.ip, n.data_port >>

-----------------------------------------------------------------------------
(* The audio functions driven directly                                     *)
(*                                                                         *)
(* audio_init, audio_write and audio_close called in any order by a single *)
(* thread, main() not started; signal counts the calls made and names the  *)
(* last one.  The device completes queued buffers as in Spec.              *)

\* calls of audio_write and audio_close in one run
MaxAudioCalls == 7

InitAudio ==
    /\ FunctionAtRest
    /\ g_lowpass_i = LowpassZero
    /\ g_lowpass_q = LowpassZero
    /\ g_dc_block = dc_block_init
    /\ g_audio_agc = audio_agc_init(AGC_TARGET)
    /\ stage = "idle"
    /\ loc = << >>
    /\ signal = [writes |-> 0, closes |-> 0, last |-> "none"]

\* the caller, outside audio_write, makes its next call: audio_init (once,
\* taken to succeed), audio_write(g_audio_out, count) with no or a full
\* block, or audio_close
AudioCall ==
    /\ pc \in {"start", "flushed"}
    /\ signal.writes + signal.closes < MaxAudioCalls
    /\ \/ /\ res.wave_opened = 0
          /\ g_audio_running' = TRUE
          /\ res' = [res EXCEPT !.wave_opened = @ + 1]
          /\ signal' = [signal EXCEPT !.last = "init"]
          /\ UNCHANGED << pc, g_audio_out_count, g_current_buffer, inqueue,
                          dev_queue, raw_blocks, audio_blocks >>
       \/ /\ \E count \in {0, AUDIO_BUFFER_SIZE} : g_audio_out_count' = count
          /\ pc' = "audio_write"
          /\ signal' = [signal EXCEPT !.writes = @ + 1, !.last = "write"]
          /\ UNCHANGED << audioVars, res >>
       \/ /\ audio_close
          /\ res' = [res EXCEPT !.wave_closed =
                       @ + (IF g_audio_running THEN 1 ELSE 0)]
          /\ signal' = [signal EXCEPT !.closes = @ + 1, !.last = "close"]
          /\ UNCHANGED << pc, g_audio_out_count >>
    /\ UNCHANGED << retval, g_running, cfgVars, discVars, timeout, disc_open,
                    wsa_open, trying_localhost, netVars, rxVars, hdr_reads,
                    bufVars, nframes, loopVars, g_lowpass_i, g_lowpass_q,
                    chain_runs, g_decim_counter, g_dc_block, g_audio_agc,
                    g_volume, g_audio_out, stage, loc, upd >>

NextAudio ==
    \/ AudioCall
    \/ AudioWriteEnter
    \/ AudioWriteCheck
    \/ AudioWriteSleep
    \/ DeviceDone

SpecAudio == InitAudio /\ [][NextAudio]_vars

\* C38: once audio_close has closed the device, no later call changes the
\* device state: audio_write returns from its first line with no buffer
\* flagged, queued or counted, and audio_close returns from its first line,
\* so the device is closed (and its buffers freed) at most once and never
\* without having been opened.
C38_AudioClose ==
    /\ [](/\ res.wave_closed <= 1
          /\ res.wave_closed <= res.wave_opened
          /\ res.wave_closed > 0 =>
                /\ ~g_audio_running
                /\ inqueue = NoBuffersQueued
                /\ dev_queue = << >>
                /\ pc \notin {"aw_check", "aw_sleep"})
    /\ [][res.wave_closed > 0 => UNCHANGED << audioVars, res >>]_vars
    /\ [][(pc = "audio_write" /\ ~g_audio_running /\ pc' # pc) =>
            (pc' = "flushed" /\ UNCHANGED audioVars)]_vars

C38_Witness ==
    /\ pc = "flushed"
    /\ signal = [writes |-> 3, closes |-> 2, last |-> "write"]
    /\ g_audio_out_count = AUDIO_BUFFER_SIZE
    /\ audio_blocks = 2
    /\ res.wave_opened = 1
    /\ res.wave_closed = 1

\* C33 (as claimed): for every num_samples the length passed to recv_full for
\* the payload is four times num_samples, and process_iq_samples is given no
\* more sample pairs than a quarter of the bytes recv_full received for that
\* frame.
C33_PayloadArithmetic ==
    /\ [](pc \in {"rd_data", "ck_data"} =>
            /\ rx_len % 4 = 0
            /\ rx_len \div 4 = Count(Field32(frame_hdr, 2)))
    /\ [][(pc = "ck_data" /\ pc' = "process") =>
            dsp_n' <= rx_total \div 4]_vars

\* the session with the scheduling a shutdown relies on: the main thread
\* keeps running (every blocking call it makes returns: sleep_ms, connect,
\* recv, Sleep), and the device completes every buffer it was given
SpecShutdown ==
    /\ Init
    /\ [][Next]_vars
    /\ WF_vars(SocketInit \/ DiscoveryInit \/ DiscoveryWait \/ DiscoveryCheck
                 \/ DspInit \/ AudioInit \/ ConnectCall \/ ConnectPton
                 \/ ConnectDo \/ RecvCall \/ RecvReturn \/ ReadStreamHeader
                 \/ AllocFrameBuffer \/ LoopTest \/ FrameHeader \/ DataPayload
                 \/ MetaPayload \/ ProcessSamples \/ ProcessFault
                 \/ ProcessReturn \/ AudioWriteEnter \/ AudioWriteCheck
                 \/ AudioWriteSleep \/ Flushed \/ Cleanup)
    /\ WF_vars(DeviceDone)

\* C31: once signal_handler has cleared g_running, main() comes to its end,
\* and when it returns the socket, the audio device, discovery and Winsock
\* are released; after the signal no further frame header is asked of the
\* socket, a payload is handed to process_iq_samples only if recv_full had
\* received all of it, and after that frame nothing is received or
\* dispatched again.  The process ends otherwise only by the undefined
\* behaviour of a frame larger than frame_buffer.
C31_ShutdownResponse ==
    /\ (~g_running) ~> (pc \in {"exited", "crashed"})
    /\ [](pc = "exited" =>
            /\ ~sock_open /\ ~g_audio_running /\ ~disc_open /\ ~wsa_open
            /\ dev_queue = << >>)
    /\ [](pc = "crashed" =>
            (frame_buffer.overrun \/ dsp_n > FRAME_BUFFER_PAIRS))
    /\ [][~g_running => hdr_reads' = hdr_reads]_vars
    /\ [][(~g_running /\ pc = "ck_data" /\ pc' = "process") =>
            (rx_ret = rx_len /\ rx_total = rx_len)]_vars
    /\ [][(~g_running /\ pc \in {"process", "loop", "cleanup"} \cup FlushPcs) =>
            pc' \notin RecvPcs \cup CheckPcs]_vars

C31_Witness ==
    /\ pc = "exited"
    /\ ~g_running
    /\ cause = "shutdown"
    /\ retval = "0"
    /\ nframes = 1
    /\ chain_runs = 1000
    /\ res.sock_closed = 1
    /\ res.wave_closed = 1

=============================================================================
